---- MODULE Spec2Model ----
(***************************************************************************)
(* Proxiverse: the grid world (world_engine.py), its entities              *)
(* (entities.py), the economic engine (economic_engine.py), the websocket  *)
(* server (server.py) and the simulation loop (main.py).                   *)
(*                                                                         *)
(* Python objects live in the heap `obj`, keyed by entity id (ids are      *)
(* uuid4 strings, unique per object).  The world's three containers        *)
(* (grid, entities, entity_positions) hold ids.                            *)
(***************************************************************************)
EXTENDS Integers, Sequences, FiniteSets, TLC

\* ------------------------------------------------------------------ bounds
Width == 3
Height == 1
MaxDelta == 1
MaxTick == 2
MaxConns == 2
MaxMsgs == 2
MaxObjs == 2
MaxOps == 3
ArenaAgents == 2
\* scaled-down values of configurable parameters
SpawnInterval == 2
MaxResources == 2
QtySpan == 0
\* the unit harnesses: quantities and amounts passed to single methods
MaxQty == 2
MaxAmt == 2
MaxInv == 2
MaxCalls == 5

\* ------------------------------------------------------- program constants
HarvestCap == 10
MinSpawnQty == 20
MaxSpawnQty == 100

\* ----------------------------------------------------------------- state
VARIABLES
    grid,               \* world_engine.grid: cell -> list of entity ids
    entities,           \* world_engine.entities: the registered ids
    entity_positions,   \* world_engine.entity_positions: id -> <<x, y>>
    current_tick,       \* world_engine.current_tick
    obj,                \* heap of Entity objects: id -> fields
    spawn_tick_counter, \* economic_engine.spawn_tick_counter
    connections,        \* server.connections: list of [ws, agent_id]
    agents,             \* server.agents: the agent ids it tracks
    action_queue,       \* server.action_queue
    pc,                 \* position of each connection's handle_client
    cur,                \* locals of a suspended handle_client_message
    loop,               \* position and locals of simulation_loop
    received,           \* how many commands have been issued so far
    last,               \* ghost: the most recent direct call and its result
    applied,            \* ghost: how often each connection's command ran
    bmsg,               \* ghost: the broadcast message built most recently
    roundSnaps          \* ghost: world snapshots since the tick advance

vars == <<grid, entities, entity_positions, current_tick, obj,
          spawn_tick_counter, connections, agents, action_queue, pc, cur,
          loop, received, last, applied, bmsg, roundSnaps>>

worldVars == <<grid, entities, entity_positions, obj>>
serverVars == <<connections, agents, action_queue, pc, cur, loop,
                applied, bmsg, roundSnaps>>

\* ------------------------------------------------------------- helpers
Min(a, b) == IF a <= b THEN a ELSE b

Cells == (0 .. Width - 1) \X (0 .. Height - 1)

Contains(s, e) == \E i \in 1 .. Len(s) : s[i] = e

\* list.remove(e): drops the first occurrence
RemoveFirst(s, e) ==
    LET i == CHOOSE j \in 1 .. Len(s) :
                 s[j] = e /\ \A k \in 1 .. j - 1 : s[k] # e
    IN  SubSeq(s, 1, i - 1) \o SubSeq(s, i + 1, Len(s))

\* dict without a key
Without(f, k) == [j \in DOMAIN f \ {k} |-> f[j]]

\* dict with a key set
With(f, k, v) == [j \in DOMAIN f \cup {k} |-> IF j = k THEN v ELSE f[j]]

\* str.upper() on the resource names in use
Upper(s) ==
    CASE s = "ore" -> "ORE"
      [] s = "fuel" -> "FUEL"
      [] s = "components" -> "COMPONENTS"
      [] OTHER -> s

EmptyInv == [k \in {} |-> 0]

\* ------------------------------------------------------------ entities.py
\* Agent(x, y, name): Entity fields plus name and an empty inventory
NewAgent(x, y) ==
    [kind |-> "agent", x |-> x, y |-> y, resource_type |-> "",
     quantity |-> 0, inventory |-> EmptyInv]

\* Resource(x, y, resource_type, quantity)
NewResource(x, y, resource_type, quantity) ==
    [kind |-> "resource", x |-> x, y |-> y,
     resource_type |-> Upper(resource_type), quantity |-> quantity,
     inventory |-> EmptyInv]

\* hasattr(entity, 'name')
HasName(e) == e.kind = "agent"

\* hasattr(entity, 'resource_type') and hasattr(entity, 'harvest')
IsHarvestable(e) == e.kind = "resource"

\* Resource.harvest that hands out units without taking them off
ResourceHarvest_undebited(quantity, amount) ==
    [quantity |-> quantity, harvested |-> Min(amount, quantity)]

\* Resource.harvest without the clamp to what is left
ResourceHarvest_unclamped(quantity, amount) ==
    [quantity |-> quantity - amount, harvested |-> amount]

\* Resource.harvest(amount): [quantity, harvested]
ResourceHarvest(quantity, amount) ==
    LET harvested == Min(amount, quantity)
    IN  [quantity |-> quantity - harvested, harvested |-> harvested]

\* is_depleted with a strict comparison
is_depleted_strict(quantity) == quantity < 0

is_depleted(quantity) == quantity <= 0

get_inventory_count(inv, resource_type) ==
    IF Upper(resource_type) \in DOMAIN inv THEN inv[Upper(resource_type)]
    ELSE 0

\* add_to_inventory assigning the amount instead of adding it
add_to_inventory_assign(inv, resource_type, quantity) ==
    With(inv, Upper(resource_type), quantity)

add_to_inventory(inv, resource_type, quantity) ==
    LET rt == Upper(resource_type)
    IN  IF rt \in DOMAIN inv THEN With(inv, rt, inv[rt] + quantity)
        ELSE With(inv, rt, quantity)

\* remove_from_inventory that keeps an entry it has emptied
remove_from_inventory_keeps_zero(inv, resource_type, quantity) ==
    LET rt == Upper(resource_type)
    IN  IF rt \notin DOMAIN inv THEN [inv |-> inv, removed |-> 0]
        ELSE LET available == inv[rt]
                 removed == Min(quantity, available)
             IN  [inv |-> With(inv, rt, available - removed),
                  removed |-> removed]

\* [inv, removed]
remove_from_inventory(inv, resource_type, quantity) ==
    LET rt == Upper(resource_type)
    IN  IF rt \notin DOMAIN inv THEN [inv |-> inv, removed |-> 0]
        ELSE LET available == inv[rt]
                 removed == Min(quantity, available)
                 left == available - removed
             IN  [inv |-> IF left = 0 THEN Without(inv, rt)
                          ELSE With(inv, rt, left),
                  removed |-> removed]

\* --------------------------------------------------------- world_engine.py
\* the world as a value: the three containers and the object heap
World ==
    [grid |-> grid, entities |-> entities,
     entity_positions |-> entity_positions, obj |-> obj]

is_valid_position(x, y) == 0 <= x /\ x < Width /\ 0 <= y /\ y < Height

\* a relocation that leaves the entity's own coordinates behind
move_to_later(o, id, x, y) == o

\* Entity.move_to(x, y)
move_to(o, id, x, y) == [o EXCEPT ![id].x = x, ![id].y = y]

\* WorldEngine.__init__: grid[y][x] is the list of the cell (x, y)
EmptyGrid == [y \in 0 .. Height - 1 |-> [x \in 0 .. Width - 1 |-> <<>>]]

\* add_entity that leaves the entity's own coordinates as constructed
add_entity_unmoved(w, id, x, y) ==
    IF ~is_valid_position(x, y) THEN [w |-> w, ret |-> FALSE]
    ELSE IF id \in w.entities THEN [w |-> w, ret |-> FALSE]
    ELSE [w |-> [grid |-> [w.grid EXCEPT ![y][x] = Append(@, id)],
                 entities |-> w.entities \cup {id},
                 entity_positions |-> With(w.entity_positions, id, <<x, y>>),
                 obj |-> w.obj],
          ret |-> TRUE]

\* add_entity without the check for an id that is already registered
add_entity_again(w, id, x, y) ==
    IF ~is_valid_position(x, y) THEN [w |-> w, ret |-> FALSE]
    ELSE [w |-> [grid |-> [w.grid EXCEPT ![y][x] = Append(@, id)],
                 entities |-> w.entities \cup {id},
                 entity_positions |-> With(w.entity_positions, id, <<x, y>>),
                 obj |-> move_to(w.obj, id, x, y)],
          ret |-> TRUE]

\* WorldEngine.add_entity: [w, ret]
add_entity(w, id, x, y) ==
    IF ~is_valid_position(x, y) THEN [w |-> w, ret |-> FALSE]
    ELSE IF id \in w.entities THEN [w |-> w, ret |-> FALSE]
    ELSE [w |-> [grid |-> [w.grid EXCEPT ![y][x] = Append(@, id)],
                 entities |-> w.entities \cup {id},
                 entity_positions |-> With(w.entity_positions, id, <<x, y>>),
                 obj |-> move_to(w.obj, id, x, y)],
          ret |-> TRUE]

\* remove_entity that forgets the grid cell
remove_entity_keeps_cell(w, id) ==
    IF id \notin w.entities THEN [w |-> w, ret |-> FALSE]
    ELSE [w |-> [grid |-> w.grid,
                 entities |-> w.entities \ {id},
                 entity_positions |-> Without(w.entity_positions, id),
                 obj |-> w.obj],
          ret |-> TRUE]

\* WorldEngine.remove_entity: [w, ret]
remove_entity(w, id) ==
    IF id \notin w.entities THEN [w |-> w, ret |-> FALSE]
    ELSE LET p == w.entity_positions[id]
         IN  [w |-> [grid |-> IF Contains(w.grid[p[2]][p[1]], id)
                              THEN [w.grid EXCEPT ![p[2]][p[1]] =
                                                      RemoveFirst(@, id)]
                              ELSE w.grid,
                     entities |-> w.entities \ {id},
                     entity_positions |-> Without(w.entity_positions, id),
                     obj |-> w.obj],
              ret |-> TRUE]

\* WorldEngine.move_entity: [w, ret, exc]; exc: list.remove raised ValueError
\* before anything was written
move_entity(w, id, new_x, new_y) ==
    IF ~is_valid_position(new_x, new_y)
    THEN [w |-> w, ret |-> FALSE, exc |-> FALSE]
    ELSE IF id \notin w.entities THEN [w |-> w, ret |-> FALSE, exc |-> FALSE]
    ELSE LET old == w.entity_positions[id]
         IN  IF ~Contains(w.grid[old[2]][old[1]], id)
             THEN [w |-> w, ret |-> FALSE, exc |-> TRUE]
             ELSE LET g1 == [w.grid EXCEPT ![old[2]][old[1]] =
                                                      RemoveFirst(@, id)]
                      g2 == [g1 EXCEPT ![new_y][new_x] = Append(@, id)]
                  IN  [w |-> [grid |-> g2,
                              entities |-> w.entities,
                              entity_positions |->
                                  With(w.entity_positions, id,
                                       <<new_x, new_y>>),
                              obj |-> move_to(w.obj, id, new_x, new_y)],
                       ret |-> TRUE, exc |-> FALSE]

\* WorldEngine.get_entity_at: a copy of the cell's list
get_entity_at(w, x, y) ==
    IF ~is_valid_position(x, y) THEN <<>> ELSE w.grid[y][x]

\* WorldEngine.get_entities_by_type, as the set of matching ids
get_entities_by_type(w, kind) == {id \in w.entities : w.obj[id].kind = kind}

\* WorldEngine.get_world_state
get_world_state(w, tick) ==
    [tick |-> tick,
     entity_count |-> Cardinality(w.entities),
     agents |-> Cardinality(get_entities_by_type(w, "agent")),
     resources |-> Cardinality(get_entities_by_type(w, "resource"))]

\* ---------------------------------------------- entities.py: agent actions
\* Agent.move without the look at the target cell's occupants
AgentMove_unchecked(w, a, dx, dy) ==
    LET new_x == w.obj[a].x + dx
        new_y == w.obj[a].y + dy
    IN  IF ~is_valid_position(new_x, new_y)
        THEN [w |-> w, ret |-> FALSE, exc |-> FALSE]
        ELSE LET m == move_entity(w, a, new_x, new_y)
             IN  [w |-> m.w, ret |-> ~m.exc, exc |-> m.exc]

\* Agent.move that relocates first and looks at the target cell afterwards
AgentMove_late_check(w, a, dx, dy) ==
    LET new_x == w.obj[a].x + dx
        new_y == w.obj[a].y + dy
    IN  IF ~is_valid_position(new_x, new_y)
        THEN [w |-> w, ret |-> FALSE, exc |-> FALSE]
        ELSE LET m == move_entity(w, a, new_x, new_y)
                 entities_at_target == get_entity_at(m.w, new_x, new_y)
             IN  [w |-> m.w,
                  ret |-> ~m.exc /\ ~\E i \in 1 .. Len(entities_at_target) :
                              /\ entities_at_target[i] # a
                              /\ HasName(m.w.obj[entities_at_target[i]]),
                  exc |-> m.exc]

\* Agent.move: [w, ret, exc]
AgentMove(w, a, dx, dy) ==
    LET new_x == w.obj[a].x + dx
        new_y == w.obj[a].y + dy
        entities_at_target == get_entity_at(w, new_x, new_y)
    IN  IF ~is_valid_position(new_x, new_y)
        THEN [w |-> w, ret |-> FALSE, exc |-> FALSE]
        ELSE IF \E i \in 1 .. Len(entities_at_target) :
                    HasName(w.obj[entities_at_target[i]])
        THEN [w |-> w, ret |-> FALSE, exc |-> FALSE]
        ELSE LET m == move_entity(w, a, new_x, new_y)
             IN  [w |-> m.w, ret |-> ~m.exc, exc |-> m.exc]

\* the loop of Agent.harvest over entities_here, from index i on
RECURSIVE HarvestLoop(_, _, _, _)
HarvestLoop(w, a, entities_here, i) ==
    IF i > Len(entities_here) THEN [w |-> w, ret |-> FALSE, n |-> 0]
    ELSE LET e == entities_here[i]
         IN  IF ~IsHarvestable(w.obj[e])
             THEN HarvestLoop(w, a, entities_here, i + 1)
             ELSE LET h == ResourceHarvest(w.obj[e].quantity, HarvestCap)
                      o1 == [w.obj EXCEPT ![e].quantity = h.quantity]
                      w1 == [w EXCEPT !.obj = o1]
                  IN  IF h.harvested > 0
                      THEN LET o2 == [o1 EXCEPT ![a].inventory =
                                        add_to_inventory(@,
                                            o1[e].resource_type, h.harvested)]
                               w2 == [w EXCEPT !.obj = o2]
                           IN  [w |-> IF is_depleted(o2[e].quantity)
                                      THEN remove_entity(w2, e).w
                                      ELSE w2,
                                ret |-> TRUE, n |-> h.harvested]
                      ELSE HarvestLoop(w1, a, entities_here, i + 1)

\* Agent.harvest looking at the cell (0, 0) instead of the agent's own
AgentHarvest_elsewhere(w, a) ==
    HarvestLoop(w, a, get_entity_at(w, 0, 0), 1)

\* Agent.harvest scanning the cell from its newest entity
AgentHarvest_newest(w, a) ==
    LET here == get_entity_at(w, w.obj[a].x, w.obj[a].y)
    IN  HarvestLoop(w, a,
                    [i \in 1 .. Len(here) |-> here[Len(here) + 1 - i]], 1)

\* Agent.harvest: [w, ret, n]; n: the amount credited
AgentHarvest(w, a) ==
    HarvestLoop(w, a, get_entity_at(w, w.obj[a].x, w.obj[a].y), 1)

\* Agent.can_produce_components
can_produce_components(inv) ==
    get_inventory_count(inv, "ORE") >= 1
    /\ get_inventory_count(inv, "FUEL") >= 1

\* produce_components ignoring the quantity asked for
produce_components_all(inv, quantity) ==
    LET max_producible == Min(get_inventory_count(inv, "ORE"),
                              get_inventory_count(inv, "FUEL"))
    IN  IF max_producible > 0
        THEN LET i1 == remove_from_inventory(inv, "ORE", max_producible).inv
                 i2 == remove_from_inventory(i1, "FUEL", max_producible).inv
             IN  [inv |-> add_to_inventory(i2, "COMPONENTS", max_producible),
                  ret |-> max_producible]
        ELSE [inv |-> inv, ret |-> max_producible]

\* Agent.produce_components(quantity): [inv, ret]
produce_components(inv, quantity) ==
    LET max_producible == Min(Min(get_inventory_count(inv, "ORE"),
                                  get_inventory_count(inv, "FUEL")),
                              quantity)
    IN  IF max_producible > 0
        THEN LET i1 == remove_from_inventory(inv, "ORE", max_producible).inv
                 i2 == remove_from_inventory(i1, "FUEL", max_producible).inv
             IN  [inv |-> add_to_inventory(i2, "COMPONENTS", max_producible),
                  ret |-> max_producible]
        ELSE [inv |-> inv, ret |-> max_producible]

\* ------------------------------------------------------- economic_engine.py
\* craft_component asking for either material instead of both
craft_component_either(inv) ==
    LET ore_count == get_inventory_count(inv, "ORE")
        fuel_count == get_inventory_count(inv, "FUEL")
    IN  IF ore_count >= 1 \/ fuel_count >= 1
        THEN LET i1 == remove_from_inventory(inv, "ORE", 1).inv
                 i2 == remove_from_inventory(i1, "FUEL", 1).inv
             IN  [inv |-> add_to_inventory(i2, "COMPONENTS", 1),
                  ret |-> TRUE]
        ELSE [inv |-> inv, ret |-> FALSE]

\* EconomicEngine.craft_component on the agent's inventory: [inv, ret]
craft_component(inv) ==
    LET ore_count == get_inventory_count(inv, "ORE")
        fuel_count == get_inventory_count(inv, "FUEL")
    IN  IF ore_count >= 1 /\ fuel_count >= 1
        THEN LET i1 == remove_from_inventory(inv, "ORE", 1).inv
                 i2 == remove_from_inventory(i1, "FUEL", 1).inv
             IN  [inv |-> add_to_inventory(i2, "COMPONENTS", 1),
                  ret |-> TRUE]
        ELSE [inv |-> inv, ret |-> FALSE]

\* should_spawn_resources that never resets its counter
should_spawn_resources_keeps(counter) ==
    [counter |-> counter + 1, ret |-> counter + 1 >= SpawnInterval]

\* should_spawn_resources comparing with > instead of >=
should_spawn_resources_late(counter) ==
    IF counter + 1 > SpawnInterval THEN [counter |-> 0, ret |-> TRUE]
    ELSE [counter |-> counter + 1, ret |-> FALSE]

\* EconomicEngine.should_spawn_resources: [counter, ret]
should_spawn_resources(counter) ==
    IF counter + 1 >= SpawnInterval THEN [counter |-> 0, ret |-> TRUE]
    ELSE [counter |-> counter + 1, ret |-> FALSE]

\* spawn_resources taking every cell without an agent for empty
EmptyCells_agentless(w) ==
    {c \in Cells :
        \A i \in 1 .. Len(get_entity_at(w, c[1], c[2])) :
            ~HasName(w.obj[get_entity_at(w, c[1], c[2])[i]])}

\* the cells spawn_resources finds empty
EmptyCells(w) == {c \in Cells : get_entity_at(w, c[1], c[2]) = <<>>}

\* spawn_resources filling every empty cell, whatever the cap
ResourcesToSpawn_uncapped(w, max_resources) == Cardinality(EmptyCells(w))

\* how many resources spawn_resources inserts
ResourcesToSpawn(w, max_resources) ==
    LET current_resources ==
            Cardinality(get_entities_by_type(w, "resource"))
    IN  IF current_resources >= max_resources THEN 0
        ELSE IF EmptyCells(w) = {} THEN 0
        ELSE Min(max_resources - current_resources,
                 Cardinality(EmptyCells(w)))

\* a drawn cell that stays among the cells to choose from
AfterDraw_keep(empty_cells, c) == empty_cells

\* the cells left to choose from once cell c was drawn
AfterDraw(empty_cells, c) == empty_cells \ {c}

\* the sequences of cells the loop's random.choice calls can draw
RECURSIVE CellDraws(_, _)
CellDraws(empty_cells, n) ==
    IF n = 0 \/ empty_cells = {} THEN {<<>>}
    ELSE UNION {{<<c>> \o rest :
                    rest \in CellDraws(AfterDraw(empty_cells, c), n - 1)} :
                c \in empty_cells}

SpawnTypes == {"ORE", "FUEL"}
SpawnQtys == MinSpawnQty .. Min(MaxSpawnQty, MinSpawnQty + QtySpan)

\* the loop of spawn_resources: insert draws[i..] with ids from id on
RECURSIVE SpawnLoop(_, _, _, _)
SpawnLoop(w, draws, i, id) ==
    IF i > Len(draws) THEN w
    ELSE LET d == draws[i]
             o1 == With(w.obj, id,
                        NewResource(d.cell[1], d.cell[2], d.type, d.qty))
             w1 == add_entity([w EXCEPT !.obj = o1], id,
                              d.cell[1], d.cell[2]).w
         IN  SpawnLoop(w1, draws, i + 1, id + 1)

\* the draws one call of spawn_resources can make
SpawnDraws(w, max_resources) ==
    LET n == ResourcesToSpawn(w, max_resources)
        cs == CellDraws(EmptyCells(w), n)
    IN  UNION {{[i \in 1 .. Len(c) |->
                    [cell |-> c[i], type |-> tq[i][1], qty |-> tq[i][2]]] :
                tq \in [1 .. Len(c) -> SpawnTypes \X SpawnQtys]} : c \in cs}

\* ------------------------------------------------------------ common state
SetWorld(w) ==
    /\ grid' = w.grid
    /\ entities' = w.entities
    /\ entity_positions' = w.entity_positions
    /\ obj' = w.obj

\* the id given to the next object constructed
FreshId == Cardinality(DOMAIN obj) + 1

NoOp == [op |-> "none", who |-> 0, a1 |-> 0, a2 |-> 0, ok |-> FALSE, n |-> 0]

Op(op, who, a1, a2, ok, n) ==
    [op |-> op, who |-> who, a1 |-> a1, a2 |-> a2, ok |-> ok, n |-> n]

Conns == 1 .. MaxConns

\* simulation_loop between two iterations
LoopIdle ==
    [pc |-> "sleep", copy |-> <<>>, idx |-> 0, disconnected |-> <<>>,
     world_state |-> [tick |-> 0, entity_count |-> 0, agents |-> 0,
                      resources |-> 0]]

NoMsg == [to |-> 0]

\* Server.__init__: no connection, no agent, an empty queue
InitServer ==
    /\ connections = <<>>
    /\ agents = {}
    /\ action_queue = <<>>
    /\ pc = [c \in Conns |-> "new"]
    /\ cur = [c \in Conns |-> NoOp]
    /\ loop = LoopIdle
    /\ received = 0
    /\ last = NoOp
    /\ applied = [c \in Conns |-> 0]
    /\ bmsg = NoMsg
    /\ roundSnaps = {}

\* WorldEngine.__init__ and EconomicEngine.__init__
InitEmpty ==
    /\ grid = EmptyGrid
    /\ entities = {}
    /\ entity_positions = [i \in {} |-> <<0, 0>>]
    /\ current_tick = 0
    /\ obj = [i \in {} |-> NewAgent(0, 0)]
    /\ spawn_tick_counter = 0
    /\ InitServer

\* ============================================================ SpecWorld
\* The world's container API driven directly: add_entity, remove_entity and
\* move_entity with any entity, known or not, and any coordinates, valid or
\* not.
\* every cell, and a position off each side of the grid
Coords == Cells \cup {<<-1, 0>>, <<Width, 0>>, <<0, -1>>, <<0, Height>>}

TestResource(x, y) == NewResource(x, y, "ore", 5)

\* an object is constructed at (x, y) and added there
WAddNew(kind, x, y) ==
    /\ FreshId <= MaxObjs
    /\ LET o == IF kind = "agent" THEN NewAgent(x, y) ELSE TestResource(x, y)
           r == add_entity([World EXCEPT !.obj = With(obj, FreshId, o)],
                           FreshId, x, y)
       IN  /\ SetWorld(r.w)
           /\ last' = Op("add", FreshId, x, y, r.ret, 0)
    /\ UNCHANGED <<serverVars, received, current_tick, spawn_tick_counter>>

\* an existing object is added (again, or after its removal)
WAdd(id, x, y) ==
    /\ LET r == add_entity(World, id, x, y)
       IN  /\ SetWorld(r.w)
           /\ last' = Op("add", id, x, y, r.ret, 0)
    /\ UNCHANGED <<serverVars, received, current_tick, spawn_tick_counter>>

WRemove(id) ==
    /\ LET r == remove_entity(World, id)
       IN  /\ SetWorld(r.w)
           /\ last' = Op("remove", id, 0, 0, r.ret, 0)
    /\ UNCHANGED <<serverVars, received, current_tick, spawn_tick_counter>>

WMove(id, x, y) ==
    /\ LET r == move_entity(World, id, x, y)
       IN  /\ SetWorld(r.w)
           /\ last' = Op("relocate", id, x, y, r.ret, 0)
    /\ UNCHANGED <<serverVars, received, current_tick, spawn_tick_counter>>

NextWorld ==
    \/ \E kind \in {"agent", "resource"}, c \in Coords :
           WAddNew(kind, c[1], c[2])
    \/ \E id \in DOMAIN obj, c \in Coords : WAdd(id, c[1], c[2])
    \/ \E id \in DOMAIN obj : WRemove(id)
    \/ \E id \in DOMAIN obj, c \in Coords : WMove(id, c[1], c[2])

SpecWorld == InitEmpty /\ [][NextWorld]_vars

\* ------------------------------------------------------------------ C1
\* the list of cell c = <<x, y>>
Cell(c) == grid[c[2]][c[1]]

\* how often id occurs in the grid, over all cells
Occurrences(id) ==
    Cardinality({ci \in Cells \X (1 .. MaxObjs + MaxConns + MaxResources) :
                    ci[2] <= Len(Cell(ci[1])) /\ Cell(ci[1])[ci[2]] = id})

\* C1: every registered entity id occurs in exactly one grid cell, exactly
\* once, that cell is the one the position index records for it, and no cell
\* holds an id that is not registered.
C1_GridIndexConsistent ==
    /\ \A id \in entities :
          /\ id \in DOMAIN entity_positions
          /\ entity_positions[id] \in Cells
          /\ Contains(Cell(entity_positions[id]), id)
          /\ Occurrences(id) = 1
    /\ \A c \in Cells : \A i \in 1 .. Len(Cell(c)) : Cell(c)[i] \in entities
    /\ \A c \in Cells : Len(Cell(c)) <= MaxObjs + MaxConns + MaxResources

\* two entities are registered and share a cell, the second of its list
\* having just been relocated there
C1_Witness ==
    /\ last.op = "relocate" /\ last.ok
    /\ Cardinality(entities) = 2
    /\ \E c \in Cells : Len(Cell(c)) = 2 /\ Cell(c)[2] = last.who

\* ============================================================ SpecArena
\* Agents placed on pairwise distinct cells of a world holding resources,
\* acting through Agent.move, Agent.harvest, craft_component and
\* WorldEngine.tick, with no server in between.
InvChoices ==
    {EmptyInv,
     add_to_inventory(add_to_inventory(EmptyInv, "ORE", 1), "FUEL", 1),
     add_to_inventory(EmptyInv, "ORE", 2)}

\* add_entity(items[j].id, items[j].x, items[j].y) for every j from i on
RECURSIVE AddAll(_, _, _)
AddAll(w, items, i) ==
    IF i > Len(items) THEN w
    ELSE AddAll(add_entity(w, items[i].id, items[i].x, items[i].y).w,
                items, i + 1)

\* create_initial_world, on this grid: an ORE deposit that one harvest
\* depletes and a FUEL deposit that takes two
InitialResources ==
    <<[x |-> 0, y |-> 0, type |-> "ORE", qty |-> 2],
      [x |-> Width - 1, y |-> 0, type |-> "FUEL", qty |-> 12]>>

InitialWorld ==
    LET n == Len(InitialResources)
        o == [id \in 1 .. n |->
                 NewResource(InitialResources[id].x, InitialResources[id].y,
                             InitialResources[id].type,
                             InitialResources[id].qty)]
        empty == [grid |-> EmptyGrid, entities |-> {},
                  entity_positions |-> [i \in {} |-> <<0, 0>>], obj |-> o]
    IN  AddAll(empty,
               [i \in 1 .. n |-> [id |-> i, x |-> InitialResources[i].x,
                                  y |-> InitialResources[i].y]], 1)

ArenaIds == (Len(InitialResources) + 1) .. (Len(InitialResources) + ArenaAgents)

\* the initial world with agent i added at place[i], holding inv[i]
ArenaWorld(place, inv) ==
    LET w0 == InitialWorld
        o == [id \in DOMAIN w0.obj \cup ArenaIds |->
                 IF id \in ArenaIds
                 THEN LET i == id - Len(InitialResources)
                      IN  [NewAgent(place[i][1], place[i][2])
                              EXCEPT !.inventory = inv[i]]
                 ELSE w0.obj[id]]
    IN  AddAll([w0 EXCEPT !.obj = o],
               [i \in 1 .. ArenaAgents |->
                   [id |-> Len(InitialResources) + i, x |-> place[i][1],
                    y |-> place[i][2]]], 1)

InitArena ==
    \E place \in [1 .. ArenaAgents -> Cells], inv1 \in InvChoices :
        /\ \A i, j \in 1 .. ArenaAgents : i # j => place[i] # place[j]
        /\ LET inv == [i \in 1 .. ArenaAgents |->
                          IF i = 1 THEN inv1 ELSE EmptyInv]
               w == ArenaWorld(place, inv)
           IN  /\ grid = w.grid
               /\ entities = w.entities
               /\ entity_positions = w.entity_positions
               /\ obj = w.obj
        /\ current_tick = 0
        /\ spawn_tick_counter = 0
        /\ InitServer

Deltas == (-MaxDelta) .. MaxDelta

\* the agents an action can be issued for
Movers == {a \in entities : obj[a].kind = "agent"}

ArenaMove(a, dx, dy) ==
    /\ received < MaxOps
    /\ received' = received + 1
    /\ LET r == AgentMove(World, a, dx, dy)
       IN  /\ ~r.exc
           /\ SetWorld(r.w)
           /\ last' = Op("move", a, dx, dy, r.ret, 0)
    /\ UNCHANGED <<serverVars, current_tick, spawn_tick_counter>>

ArenaHarvest(a) ==
    /\ received < MaxOps
    /\ received' = received + 1
    /\ LET r == AgentHarvest(World, a)
       IN  /\ SetWorld(r.w)
           /\ last' = Op("harvest", a, 0, 0, r.ret, r.n)
    /\ UNCHANGED <<serverVars, current_tick, spawn_tick_counter>>

ArenaCraft(a) ==
    /\ received < MaxOps
    /\ received' = received + 1
    /\ LET r == craft_component(obj[a].inventory)
       IN  /\ obj' = [obj EXCEPT ![a].inventory = r.inv]
           /\ last' = Op("craft", a, 0, 0, r.ret, 0)
    /\ UNCHANGED <<grid, entities, entity_positions, serverVars,
                   current_tick, spawn_tick_counter>>

\* tick counting twice
NextTick_twice(tick) == tick + 2

\* WorldEngine.tick: self.current_tick += 1, before and whatever the
\* economic engine does
NextTick(tick) == tick + 1

\* WorldEngine.tick(economic_engine): the counter advances, and every
\* spawn_interval-th call spawns; draws: what spawn_resources draws
WorldTick(draws) ==
    LET s == should_spawn_resources(spawn_tick_counter)
    IN  /\ current_tick' = NextTick(current_tick)
        /\ spawn_tick_counter' = s.counter
        /\ draws \in (IF s.ret THEN SpawnDraws(World, MaxResources)
                      ELSE {<<>>})
        /\ SetWorld(SpawnLoop(World, draws, 1, FreshId))
        /\ last' = Op("tick", 0, 0, 0, s.ret, Len(draws))

\* the draws any call of spawn_resources could make in this world
AllDraws == SpawnDraws(World, MaxResources) \cup {<<>>}

ArenaTick ==
    /\ current_tick < MaxTick
    /\ \E draws \in AllDraws : WorldTick(draws)
    /\ UNCHANGED <<serverVars, received>>

NextArena ==
    \/ \E a \in Movers, dx \in Deltas, dy \in Deltas : ArenaMove(a, dx, dy)
    \/ \E a \in Movers : ArenaHarvest(a)
    \/ \E a \in Movers : ArenaCraft(a)
    \/ ArenaTick

SpecArena == InitArena /\ [][NextArena]_vars

\* ------------------------------------------------------------------ C2
\* the agents among the ids of a cell's list
AgentsIn(list) == {i \in 1 .. Len(list) : obj[list[i]].kind = "agent"}

\* C2: no cell holds more than one Agent, in any state reached by moves,
\* harvests, crafts and ticks from agents on pairwise distinct cells.
C2_AgentsOnDistinctCells ==
    /\ \A c \in Cells : Cardinality(AgentsIn(Cell(c))) <= 1
    /\ \A a, b \in Movers : a # b => entity_positions[a] # entity_positions[b]

\* the last operation was a move that another agent on the target blocked
C2_Witness ==
    /\ last.op = "move" /\ ~last.ok
    /\ LET tx == obj[last.who].x + last.a1
           ty == obj[last.who].y + last.a2
       IN  /\ <<tx, ty>> \in Cells
           /\ \E b \in Movers : b # last.who /\ entity_positions[b] = <<tx, ty>>

\* ------------------------------------------------------------------ C7
\* the resources registered in the world stay where they are
ResourcesStay ==
    \A r \in entities :
        obj[r].kind = "resource" =>
            /\ r \in entities'
            /\ entity_positions'[r] = entity_positions[r]
            /\ Contains(grid'[entity_positions[r][2]][entity_positions[r][1]], r)

\* C7: a move{dx,dy} succeeds, and relocates the agent to (x+dx, y+dy), if
\* and only if the target is in bounds and holds no Agent other than the
\* mover (dx = dy = 0 included); resources are not displaced.
C7_MoveSucceedsIffFree ==
    [][last'.op = "move" =>
          LET a == last'.who
              tx == obj[a].x + last'.a1
              ty == obj[a].y + last'.a2
              target == get_entity_at(World, tx, ty)
              free == /\ is_valid_position(tx, ty)
                      /\ \A i \in AgentsIn(target) : target[i] = a
          IN  /\ last'.ok <=> free
              /\ last'.ok => /\ obj'[a].x = tx /\ obj'[a].y = ty
                             /\ entity_positions'[a] = <<tx, ty>>
                             /\ Contains(grid'[ty][tx], a)
              /\ ResourcesStay]_vars

\* ------------------------------------------------------------------ C8
\* the resources among the ids of a cell's list
ResourcesIn(list) ==
    {list[i] : i \in {j \in 1 .. Len(list) : obj[list[j]].kind = "resource"}}

\* id is in no cell, not registered and not indexed, in the next state
GoneNext(id) ==
    /\ id \notin entities'
    /\ id \notin DOMAIN entity_positions'
    /\ \A c \in Cells : ~Contains(grid'[c[2]][c[1]], id)

\* C8: a harvest on a cell holding exactly one Resource, of kind k and
\* quantity q >= 1, succeeds, takes h = min(10, q) from the resource, adds
\* exactly h of k to the agent's inventory, and removes the resource from
\* cell, registry and index exactly when q <= 10.
C8_HarvestSingleResource ==
    [][last'.op = "harvest" =>
          LET a == last'.who
              here == ResourcesIn(get_entity_at(World, obj[a].x, obj[a].y))
          IN  \A r \in here :
                  (here = {r} /\ obj[r].quantity >= 1) =>
                      LET q == obj[r].quantity
                          k == obj[r].resource_type
                          h == IF q < 10 THEN q ELSE 10
                      IN  /\ last'.ok
                          /\ obj'[r].quantity = q - h
                          /\ get_inventory_count(obj'[a].inventory, k)
                               = get_inventory_count(obj[a].inventory, k) + h
                          /\ \A k2 \in {"ORE", "FUEL", "COMPONENTS"} \ {k} :
                               get_inventory_count(obj'[a].inventory, k2)
                                 = get_inventory_count(obj[a].inventory, k2)
                          /\ GoneNext(r) <=> q <= 10]_vars

\* an agent has taken the whole FUEL deposit of 12 in two harvests, 10 and
\* then the last 2, which removed the deposit
C8_Witness ==
    /\ last.op = "harvest" /\ last.ok /\ last.n = 2
    /\ get_inventory_count(obj[last.who].inventory, "FUEL") = 12
    /\ ResourcesIn(Cell(<<obj[last.who].x, obj[last.who].y>>)) = {}

\* ------------------------------------------------------------------ C9
\* C9: craft succeeds iff the inventory holds at least 1 ORE and 1 FUEL; a
\* success takes exactly 1 ORE and 1 FUEL and adds exactly 1 COMPONENTS in
\* one step (from {ORE:1, FUEL:1} the inventory becomes {COMPONENTS:1}); a
\* failure returns false and leaves the inventory as it was.
C9_CraftIffMaterials ==
    [][last'.op = "craft" =>
          LET a == last'.who
              before == obj[a].inventory
              after == obj'[a].inventory
              has == get_inventory_count(before, "ORE") >= 1
                     /\ get_inventory_count(before, "FUEL") >= 1
          IN  /\ last'.ok <=> has
              /\ last'.ok =>
                    /\ get_inventory_count(after, "ORE")
                         = get_inventory_count(before, "ORE") - 1
                    /\ get_inventory_count(after, "FUEL")
                         = get_inventory_count(before, "FUEL") - 1
                    /\ get_inventory_count(after, "COMPONENTS")
                         = get_inventory_count(before, "COMPONENTS") + 1
              /\ (DOMAIN before = {"ORE", "FUEL"} /\ before["ORE"] = 1
                  /\ before["FUEL"] = 1) =>
                    (DOMAIN after = {"COMPONENTS"} /\ after["COMPONENTS"] = 1)
              /\ ~last'.ok => after = before
              /\ \A id \in DOMAIN obj \ {a} : obj'[id] = obj[id]
              /\ UNCHANGED <<grid, entities, entity_positions>>]_vars

\* a craft has just failed on the inventory {COMPONENTS: 1} that a first,
\* successful craft made of {ORE: 1, FUEL: 1}
C9_Witness ==
    /\ last.op = "craft" /\ ~last.ok
    /\ DOMAIN obj[last.who].inventory = {"COMPONENTS"}
    /\ obj[last.who].inventory["COMPONENTS"] = 1

\* ================================================================= Spec
\* The server: one handle_client coroutine per connection and the
\* simulation_loop, interleaved at their await points (receiving a message,
\* completing a send, the sleep between ticks).

\* ------------------------------------------------------------ server.py
\* connections.get(websocket): the agent id, 0 for None
ConnGet(conns, ws) ==
    IF \E i \in 1 .. Len(conns) : conns[i].ws = ws
    THEN conns[CHOOSE i \in 1 .. Len(conns) : conns[i].ws = ws].agent_id
    ELSE 0

\* del connections[websocket]
ConnDel(conns, ws) == SelectSeq(conns, LAMBDA e : e.ws # ws)

\* register_client with the spawn point in the corner
register_client_corner(w, conns, ags, ws, id) ==
    [w |-> add_entity([w EXCEPT !.obj = With(w.obj, id, NewAgent(0, 0))],
                      id, 0, 0).w,
     connections |-> Append(conns, [ws |-> ws, agent_id |-> id]),
     agents |-> ags \cup {id},
     agent_id |-> id]

\* Server.register_client: [w, connections, agents, agent_id]
register_client(w, conns, ags, ws, id) ==
    LET spawn_x == Width \div 2
        spawn_y == Height \div 2
        w1 == [w EXCEPT !.obj = With(w.obj, id, NewAgent(spawn_x, spawn_y))]
    IN  [w |-> add_entity(w1, id, spawn_x, spawn_y).w,
         connections |-> Append(conns, [ws |-> ws, agent_id |-> id]),
         agents |-> ags \cup {id},
         agent_id |-> id]

\* unregister_client that drops the connection and leaves its agent behind
unregister_client_keeps_agent(w, conns, ags, ws) ==
    [w |-> w, connections |-> ConnDel(conns, ws), agents |-> ags]

\* unregister_client that takes the agent out of the world and keeps the
\* server's tables
unregister_client_keeps_binding(w, conns, ags, ws) ==
    IF ConnGet(conns, ws) # 0
    THEN [w |-> remove_entity(w, ConnGet(conns, ws)).w,
          connections |-> conns, agents |-> ags]
    ELSE [w |-> w, connections |-> conns, agents |-> ags]

\* Server.unregister_client: [w, connections, agents]
unregister_client(w, conns, ags, ws) ==
    IF ConnGet(conns, ws) # 0
    THEN LET agent_id == ConnGet(conns, ws)
         IN  IF agent_id \in ags
             THEN [w |-> remove_entity(w, agent_id).w,
                   connections |-> ConnDel(conns, ws),
                   agents |-> ags \ {agent_id}]
             ELSE [w |-> w, connections |-> ConnDel(conns, ws),
                   agents |-> ags]
    ELSE [w |-> w, connections |-> conns, agents |-> ags]

\* a handler that also puts the command on the queue
Enqueued_put(queue, item) == Append(queue, item)

\* the action_queue after handle_client_message handled a command: the
\* handler applies the command itself and puts nothing on the queue
Enqueued(queue, item) == queue

\* the action branch reporting success whatever the action returned
ApplyAction_success(w, agent, action, dx, dy) ==
    IF action = "move"
    THEN [w |-> AgentMove(w, agent, dx, dy).w, ret |-> TRUE, n |-> 0,
          exc |-> AgentMove(w, agent, dx, dy).exc]
    ELSE IF action = "harvest"
    THEN [w |-> AgentHarvest(w, agent).w, ret |-> TRUE,
          n |-> AgentHarvest(w, agent).n, exc |-> FALSE]
    ELSE [w |-> [w EXCEPT !.obj[agent].inventory =
                              craft_component(w.obj[agent].inventory).inv],
          ret |-> TRUE, n |-> 0, exc |-> FALSE]

\* the action branch shared by handle_client_message and
\* process_action_queue: [w, ret, n, exc]
ApplyAction(w, agent, action, dx, dy) ==
    IF action = "move"
    THEN LET r == AgentMove(w, agent, dx, dy)
         IN  [w |-> r.w, ret |-> r.ret, n |-> 0, exc |-> r.exc]
    ELSE IF action = "harvest"
    THEN LET r == AgentHarvest(w, agent)
         IN  [w |-> r.w, ret |-> r.ret, n |-> r.n, exc |-> FALSE]
    ELSE LET r == craft_component(w.obj[agent].inventory)
         IN  [w |-> [w EXCEPT !.obj[agent].inventory = r.inv],
              ret |-> r.ret, n |-> 0, exc |-> FALSE]

\* a server that takes one more action name for a command
KnownActions_dance == {"move", "harvest", "craft", "dance"}

\* the action names handle_client_message and process_action_queue know
KnownActions == {"move", "harvest", "craft"}

\* a loop that takes the queue from its tail
RECURSIVE DrainLoop_lifo(_, _, _, _, _)
DrainLoop_lifo(w, ags, queue, i, app) ==
    IF i > Len(queue) THEN [w |-> w, applied |-> app]
    ELSE LET it == queue[Len(queue) - i + 1]
         IN  IF it.agent_id \notin ags
             THEN DrainLoop_lifo(w, ags, queue, i + 1, app)
             ELSE IF it.action \in KnownActions
             THEN DrainLoop_lifo(ApplyAction(w, it.agent_id, it.action,
                                             it.dx, it.dy).w,
                                 ags, queue, i + 1,
                                 [app EXCEPT ![it.conn] = Min(2, @ + 1)])
             ELSE DrainLoop_lifo(w, ags, queue, i + 1, app)

\* the loop of process_action_queue from item i on: [w, applied]
RECURSIVE DrainLoop(_, _, _, _, _)
DrainLoop(w, ags, queue, i, app) ==
    IF i > Len(queue) THEN [w |-> w, applied |-> app]
    ELSE LET it == queue[i]
         IN  IF it.agent_id \notin ags
             THEN DrainLoop(w, ags, queue, i + 1, app)
             ELSE IF it.action \in KnownActions
             THEN DrainLoop(ApplyAction(w, it.agent_id, it.action,
                                        it.dx, it.dy).w,
                            ags, queue, i + 1,
                            [app EXCEPT ![it.conn] = Min(2, @ + 1)])
             ELSE DrainLoop(w, ags, queue, i + 1, app)

\* the game_state message broadcast_world_state builds for one connection
BuildUpdate(ws, agent_id, world_state, o) ==
    [to |-> ws, agent_id |-> agent_id, tick |-> world_state.tick,
     agent_state |-> [x |-> o[agent_id].x, y |-> o[agent_id].y,
                      inventory |-> o[agent_id].inventory],
     world_info |-> [total_entities |-> world_state.entity_count,
                     total_agents |-> world_state.agents,
                     total_resources |-> world_state.resources]]

\* a loop that passes over the entry at i
NextTarget_skip(copy, i, ags) ==
    IF i + 1 <= Len(copy) /\ copy[i + 1].agent_id \in ags THEN i + 1 ELSE 0

\* the first entry of connections_copy from i on whose agent the server
\* still tracks (the others are skipped by `continue`); 0 when none is left
NextTarget(copy, i, ags) ==
    IF \E j \in i .. Len(copy) : copy[j].agent_id \in ags
    THEN CHOOSE j \in i .. Len(copy) :
             /\ copy[j].agent_id \in ags
             /\ \A k \in i .. j - 1 : copy[k].agent_id \notin ags
    ELSE 0

\* the cleanup loop at the end of broadcast_world_state
RECURSIVE CleanupLoop(_, _, _)
CleanupLoop(st, disconnected, i) ==
    IF i > Len(disconnected) THEN st
    ELSE CleanupLoop(unregister_client(st.w, st.connections, st.agents,
                                       disconnected[i]),
                     disconnected, i + 1)

\* ------------------------------------------------------------- ghosts
\* what one instant shows of the agents the running broadcast has yet to
\* finish sending to (copy[idx..]): their states, if the world's counts at
\* this instant are the ones the broadcast holds in world_state
Snapshot(w, ags, tick, lp) ==
    IF get_world_state(w, tick) # lp.world_state THEN {}
    ELSE {[info |-> get_world_state(w, tick), agent_id |-> a,
           x |-> w.obj[a].x, y |-> w.obj[a].y,
           inventory |-> w.obj[a].inventory] :
          a \in {lp.copy[k].agent_id : k \in lp.idx .. Len(lp.copy)}
                \cap ags}

\* roundSnaps collects the instants from the tick advance to the end of
\* that tick's broadcast
Track ==
    roundSnaps' =
        IF loop'.pc = "send"
        THEN {e \in (IF loop.pc = "send" THEN roundSnaps ELSE {}) :
                 \E k \in loop'.idx .. Len(loop'.copy) :
                     loop'.copy[k].agent_id = e.agent_id}
             \cup Snapshot([grid |-> grid', entities |-> entities',
                            entity_positions |-> entity_positions',
                            obj |-> obj'], agents', current_tick', loop')
        ELSE {}

SetServer(st) ==
    /\ SetWorld(st.w)
    /\ connections' = st.connections
    /\ agents' = st.agents

\* ------------------------------------------------------- handle_client
\* a client connects: register_client runs, the welcome send is awaited
\* (connections are numbered in the order in which they open)
Connect(c) ==
    /\ pc[c] = "new"
    /\ \A b \in 1 .. c - 1 : pc[b] # "new"
    /\ SetServer(register_client(World, connections, agents, c, FreshId))
    /\ pc' = [pc EXCEPT ![c] = "welcome"]
    /\ UNCHANGED <<current_tick, spawn_tick_counter, action_queue, cur, loop,
                   applied, bmsg, last, received>>
    /\ Track

\* the handler leaves through `finally`: unregister_client
Leave(c) ==
    /\ SetServer(unregister_client(World, connections, agents, c))
    /\ pc' = [pc EXCEPT ![c] = "closed"]

\* an awaited send of the handler completes, or fails and ends the handler
SendDone(c, at, ok, next) ==
    /\ pc[c] = at
    /\ IF ok
       THEN /\ pc' = [pc EXCEPT ![c] = next]
            /\ UNCHANGED <<worldVars, connections, agents>>
       ELSE Leave(c)
    /\ cur' = [cur EXCEPT ![c] = IF ok /\ next # "recv" THEN @ ELSE NoOp]
    /\ UNCHANGED <<current_tick, spawn_tick_counter, action_queue, loop,
                   applied, bmsg, last, received>>
    /\ Track

\* the client closes while the handler waits for its next message
ClientClose(c) ==
    /\ pc[c] = "recv"
    /\ Leave(c)
    /\ UNCHANGED <<current_tick, spawn_tick_counter, action_queue, cur, loop,
                   applied, bmsg, last, received>>
    /\ Track

Messages ==
    [json : {TRUE}, action : {"move"}, dx : Deltas, dy : Deltas]
    \cup [json : {TRUE}, action : {"harvest", "craft", "dance"},
          dx : {0}, dy : {0}]
    \cup [json : {FALSE}, action : {""}, dx : {0}, dy : {0}]

\* handle_client_message up to its first await
Receive(c, m) ==
    /\ pc[c] = "recv"
    /\ received < MaxMsgs
    /\ received' = received + 1
    /\ LET agent_id == ConnGet(connections, c)
       IN  IF ~m.json \/ agent_id = 0 \/ agent_id \notin agents
              \/ m.action \notin KnownActions
           THEN /\ pc' = [pc EXCEPT ![c] = "error"]
                /\ UNCHANGED <<worldVars, cur, applied, action_queue>>
           ELSE LET r == ApplyAction(World, agent_id, m.action, m.dx, m.dy)
                IN  /\ SetWorld(r.w)
                    /\ cur' = [cur EXCEPT ![c] =
                                  Op(m.action, agent_id, 0, 0, r.ret, 0)]
                    /\ applied' = [applied EXCEPT ![c] = 1]
                    /\ action_queue' =
                           Enqueued(action_queue,
                                    [agent_id |-> agent_id,
                                     action |-> m.action, dx |-> m.dx,
                                     dy |-> m.dy, conn |-> c])
                    /\ pc' = [pc EXCEPT ![c] = IF r.exc THEN "error"
                                               ELSE "ack"]
    /\ UNCHANGED <<current_tick, spawn_tick_counter, connections, agents,
                   loop, bmsg, last>>
    /\ Track

\* ----------------------------------------------------- simulation_loop
\* a round that gives up at the first send that failed
BroadcastStep_abort(st, copy, i, world_state, disconnected) ==
    LET j == IF disconnected # <<>> THEN 0
             ELSE NextTarget(copy, i, st.agents)
    IN  IF j # 0
        THEN /\ SetServer(st)
             /\ loop' = [pc |-> "send", copy |-> copy, idx |-> j,
                         world_state |-> world_state,
                         disconnected |-> disconnected]
             /\ bmsg' = BuildUpdate(copy[j].ws, copy[j].agent_id, world_state,
                                    st.w.obj)
        ELSE /\ SetServer(CleanupLoop(st, disconnected, 1))
             /\ loop' = LoopIdle
             /\ bmsg' = NoMsg

\* a round whose failed send is not caught: the exception leaves
\* broadcast_world_state and simulation_loop re-raises it, so the loop is over
BroadcastStep_raise(st, copy, i, world_state, disconnected) ==
    LET j == NextTarget(copy, i, st.agents)
    IN  IF disconnected # <<>>
        THEN /\ SetServer(st)
             /\ loop' = [LoopIdle EXCEPT !.pc = "raised"]
             /\ bmsg' = NoMsg
        ELSE IF j # 0
        THEN /\ SetServer(st)
             /\ loop' = [pc |-> "send", copy |-> copy, idx |-> j,
                         world_state |-> world_state,
                         disconnected |-> disconnected]
             /\ bmsg' = BuildUpdate(copy[j].ws, copy[j].agent_id, world_state,
                                    st.w.obj)
        ELSE /\ SetServer(CleanupLoop(st, disconnected, 1))
             /\ loop' = LoopIdle
             /\ bmsg' = NoMsg

\* the loop has sent to copy[i - 1]; it builds the update for the next
\* connection it does not skip, or runs the cleanup and goes to sleep
BroadcastStep(st, copy, i, world_state, disconnected) ==
    LET j == NextTarget(copy, i, st.agents)
    IN  IF j # 0
        THEN /\ SetServer(st)
             /\ loop' = [pc |-> "send", copy |-> copy, idx |-> j,
                         world_state |-> world_state,
                         disconnected |-> disconnected]
             /\ bmsg' = BuildUpdate(copy[j].ws, copy[j].agent_id, world_state,
                                    st.w.obj)
        ELSE /\ SetServer(CleanupLoop(st, disconnected, 1))
             /\ loop' = LoopIdle
             /\ bmsg' = NoMsg

\* one iteration up to its first await: process_action_queue, tick, and
\* broadcast_world_state up to the first send
LoopTick ==
    /\ loop.pc = "sleep"
    /\ current_tick < MaxTick
    /\ LET d == DrainLoop(World, agents, action_queue, 1, applied)
           s == should_spawn_resources(spawn_tick_counter)
       IN  /\ action_queue' = <<>>
           /\ applied' = d.applied
           /\ current_tick' = NextTick(current_tick)
           /\ spawn_tick_counter' = s.counter
           /\ \E draws \in (IF s.ret THEN SpawnDraws(d.w, MaxResources)
                            ELSE {<<>>}) :
                 LET w1 == SpawnLoop(d.w, draws, 1, FreshId)
                     st == [w |-> w1, connections |-> connections,
                            agents |-> agents]
                 IN  IF connections = <<>>
                     THEN /\ SetServer(st)
                          /\ loop' = LoopIdle
                          /\ bmsg' = NoMsg
                     ELSE BroadcastStep(st, connections, 1,
                                        get_world_state(w1,
                                            NextTick(current_tick)),
                                        <<>>)
    /\ UNCHANGED <<pc, cur, last, received>>
    /\ Track

\* the awaited send of the broadcast completes or fails
BroadcastSendDone(ok) ==
    /\ loop.pc = "send"
    /\ BroadcastStep([w |-> World, connections |-> connections,
                      agents |-> agents],
                     loop.copy, loop.idx + 1, loop.world_state,
                     IF ok THEN loop.disconnected
                     ELSE Append(loop.disconnected, loop.copy[loop.idx].ws))
    /\ UNCHANGED <<current_tick, spawn_tick_counter, action_queue, pc, cur,
                   applied, last, received>>
    /\ Track

\* create_initial_world and the three constructors
Init ==
    /\ grid = InitialWorld.grid
    /\ entities = InitialWorld.entities
    /\ entity_positions = InitialWorld.entity_positions
    /\ obj = InitialWorld.obj
    /\ current_tick = 0
    /\ spawn_tick_counter = 0
    /\ InitServer

Next ==
    \/ \E c \in Conns : Connect(c)
    \/ \E c \in Conns, ok \in BOOLEAN : SendDone(c, "welcome", ok, "recv")
    \/ \E c \in Conns, m \in Messages : Receive(c, m)
    \/ \E c \in Conns, ok \in BOOLEAN : SendDone(c, "ack", ok, "state")
    \/ \E c \in Conns, ok \in BOOLEAN : SendDone(c, "state", ok, "recv")
    \/ \E c \in Conns, ok \in BOOLEAN : SendDone(c, "error", ok, "recv")
    \/ \E c \in Conns : ClientClose(c)
    \/ LoopTick
    \/ \E ok \in BOOLEAN : BroadcastSendDone(ok)

Spec == Init /\ [][Next]_vars

\* ------------------------------------------------------------------ C3
\* C3: a registration never puts the new agent on a cell that holds
\* another agent: the newcomer is placed elsewhere, or not placed at all.
C3_RegistrationKeepsAgentsApart ==
    [][\A c \in Conns :
          (pc[c] = "new" /\ pc'[c] = "welcome") =>
              LET id == ConnGet(connections', c)
              IN  \/ id \notin entities'
                  \/ \A b \in entities' \ {id} :
                        obj'[b].kind = "agent" =>
                            entity_positions'[b] # entity_positions'[id]]_vars

\* ------------------------------------------------------------------ C4
\* C4: a command a handler accepted has been applied exactly once: once by
\* the time the handler awaits its reply, and never once more by a later
\* process_action_queue.
C4_AppliedExactlyOnce ==
    \A c \in Conns :
        /\ applied[c] <= 1
        /\ pc[c] \in {"ack", "state"} => applied[c] = 1

\* a harvest, the second message read, depleted a deposit; its handler still
\* awaits the acknowledgment while the next iteration has drained the queue,
\* ticked and taken its world_state, which shows the deposit gone
C4_Witness ==
    \E c \in Conns :
        /\ pc[c] = "ack" /\ cur[c].op = "harvest" /\ cur[c].ok
        /\ applied[c] = 1 /\ received = 2
        /\ loop.pc = "send"
        /\ loop.world_state.resources = Len(InitialResources) - 1

\* ------------------------------------------------------------------ C5
\* C5: a handler that accepts a command only enqueues it: the world is
\* changed by process_action_queue alone, before the tick advance, and
\* never by a handler, so never while a broadcast is in flight either.
C5_CommandsOnlyThroughQueue ==
    [][\A c \in Conns :
          (pc[c] = "recv" /\ pc'[c] = "ack") =>
              /\ UNCHANGED worldVars
              /\ Len(action_queue') = Len(action_queue) + 1]_vars

\* ------------------------------------------------------------------ C6
\* C6: the game_state a broadcast round builds shows the world of one
\* instant since the tick advance: at some such instant the tick and the
\* counts were those of the message and the agent was as agent_state says.
C6_BroadcastShowsOneInstant ==
    bmsg # NoMsg =>
        \E e \in roundSnaps :
            /\ e.info.tick = bmsg.tick
            /\ e.info.entity_count = bmsg.world_info.total_entities
            /\ e.info.agents = bmsg.world_info.total_agents
            /\ e.info.resources = bmsg.world_info.total_resources
            /\ e.agent_id = bmsg.agent_id
            /\ e.x = bmsg.agent_state.x /\ e.y = bmsg.agent_state.y
            /\ e.inventory = bmsg.agent_state.inventory

\* ----------------------------------------------------------------- C10
Resources == {r \in entities : obj[r].kind = "resource"}

\* C10: a tick's spawn puts each new Resource on a cell that held no entity
\* and no other new Resource, and the number of Resources never exceeds
\* max_resources in a run that starts at or below it.
C10_SpawnOnEmptyCellsUnderCap ==
    /\ [](Cardinality(Resources) <= MaxResources)
    /\ [][current_tick' = current_tick + 1 =>
             \A r \in entities' \ entities :
                 /\ obj'[r].kind = "resource"
                 /\ get_entity_at(World, entity_positions'[r][1],
                                  entity_positions'[r][2]) = <<>>
                 /\ \A r2 \in entities' \ entities :
                        r2 # r => entity_positions'[r2] # entity_positions'[r]
          ]_vars

\* a spawned Resource is in the world and the count is at the cap
C10_Witness ==
    /\ \E r \in Resources : r > Len(InitialResources)
    /\ Cardinality(Resources) = MaxResources

\* ----------------------------------------------------------------- C11
\* the connections whose binding this step deletes, and their agents
Dropped ==
    {c \in Conns : ConnGet(connections, c) # 0 /\ ConnGet(connections', c) = 0}

Gone == {ConnGet(connections, c) : c \in Dropped}

\* a handler leaves through `finally`
HandlerCleanup(c) == pc[c] # "closed" /\ pc'[c] = "closed"

\* broadcast_world_state runs its cleanup loop and returns
BroadcastCleanup == loop.pc = "send" /\ loop'.pc = "sleep"

\* C11: a disconnect cleanup, run by a handler's `finally` or by the
\* broadcast's cleanup loop, removes the agent of each connection it drops
\* from grid, registry, index and the server's tables, and nothing else; run
\* for a connection that was cleaned up before, it changes nothing.
C11_CleanupOnceAndIdempotent ==
    [][((\E c \in Conns : HandlerCleanup(c)) \/ BroadcastCleanup) =>
          /\ Gone \subseteq (entities \cap agents)
          /\ entities' = entities \ Gone
          /\ agents' = agents \ Gone
          /\ DOMAIN entity_positions' = DOMAIN entity_positions \ Gone
          /\ \A i \in DOMAIN entity_positions' :
                entity_positions'[i] = entity_positions[i]
          /\ \A c \in Cells :
                grid'[c[2]][c[1]] =
                    SelectSeq(grid[c[2]][c[1]], LAMBDA e : e \notin Gone)
          /\ \A i \in 1 .. Len(connections) :
                connections[i].ws \notin Dropped =>
                    \E j \in 1 .. Len(connections') :
                        connections'[j] = connections[i]
          /\ Len(connections') = Len(connections) - Cardinality(Dropped)
          /\ \A c \in Conns :
                HandlerCleanup(c) =>
                    ConnGet(connections', c) = 0 /\ Dropped \subseteq {c}
          /\ BroadcastCleanup =>
                /\ \A i \in 1 .. Len(loop.disconnected) :
                      ConnGet(connections', loop.disconnected[i]) = 0
                /\ Dropped \subseteq
                      {loop.disconnected[i] : i \in 1 .. Len(loop.disconnected)}
                      \cup {loop.copy[loop.idx].ws}]_vars

\* the broadcast's cleanup has unregistered a connection whose handler is
\* still running (its own cleanup is yet to come), another stays registered
C11_Witness ==
    /\ loop.pc = "sleep"
    /\ \E c \in Conns :
          /\ pc[c] \in {"welcome", "recv", "ack", "state", "error"}
          /\ ConnGet(connections, c) = 0
    /\ connections # <<>>

\* ----------------------------------------------------------------- C12
\* the agents that a disconnect cleanup has taken out of the world
Departed == {a \in DOMAIN obj : obj[a].kind = "agent" /\ a \notin entities}

\* the actions a queue could hold for agent a
QueuedFor(a) ==
    [agent_id : {a}, action : KnownActions, dx : Deltas, dy : Deltas,
     conn : Conns]

\* C12: once a connection's cleanup has run, nothing changes the world for
\* its agent: the agent object stays as it was and out of grid, registry and
\* index; a message its handler still reads is answered with an error and
\* changes nothing; process_action_queue skips an action naming the agent;
\* grid and index stay consistent.
C12_NothingAfterCleanup ==
    [][/\ \A a \in Departed :
             /\ obj'[a] = obj[a]
             /\ a \notin entities' /\ a \notin agents'
             /\ a \notin DOMAIN entity_positions'
             /\ \A c \in Cells : ~Contains(grid'[c[2]][c[1]], a)
             /\ \A it \in QueuedFor(a) :
                   DrainLoop(World, agents, <<it>>, 1, applied).w = World
       /\ \A c \in Conns :
             (/\ pc[c] = "recv" /\ pc'[c] \notin {"recv", "closed"}
              /\ \/ ConnGet(connections, c) = 0
                 \/ ConnGet(connections, c) \in Departed) =>
                 pc'[c] = "error" /\ UNCHANGED worldVars
       /\ C1_GridIndexConsistent']_vars

\* a handler whose connection the broadcast cleaned up while it awaited its
\* acknowledgment has gone on, read one more message and answered with an
\* error
C12_Witness ==
    \E c \in Conns :
        /\ pc[c] = "error" /\ received = 2
        /\ ConnGet(connections, c) = 0
        /\ Departed # {}

\* ----------------------------------------------------------------- C13
\* message m, read from connection c, is a command of a registered
\* connection whose agent exists
IsCommand(c, m) ==
    /\ m.json /\ m.action \in KnownActions
    /\ ConnGet(connections, c) # 0 /\ ConnGet(connections, c) \in agents

\* C13: a move, harvest or craft read from a registered connection whose
\* agent exists is answered with an action_confirmed, never an error, that
\* names the action and tells whether it took effect (false leaves the
\* world as it was); the game_state that answers the command is sent only
\* after that acknowledgment, for the same command.
C13_AckThenState ==
    [][\A c \in Conns :
          /\ \A m \in Messages :
                (Receive(c, m) /\ IsCommand(c, m)) =>
                    /\ pc'[c] = "ack"
                    /\ cur'[c].op = m.action
                    /\ cur'[c].who = ConnGet(connections, c)
          /\ (pc[c] = "recv" /\ pc'[c] = "ack") =>
                /\ cur'[c].ok <=> obj'[cur'[c].who] # obj[cur'[c].who]
                /\ ~cur'[c].ok => UNCHANGED worldVars
          /\ pc'[c] = "state" => /\ pc[c] \in {"ack", "state"}
                                 /\ cur'[c] = cur[c]
                                 /\ cur[c].op \in KnownActions
          /\ pc'[c] = "ack" => pc[c] \in {"recv", "ack"}]_vars

\* the acknowledgment of a move that failed has been sent with success =
\* false and the handler is sending the game_state
C13_Witness ==
    \E c \in Conns :
        pc[c] = "state" /\ cur[c].op = "move" /\ ~cur[c].ok

\* ----------------------------------------------------------------- C14
\* the index the round had reached before this step (0: no round running)
SentUpTo == IF loop.pc = "send" THEN loop.idx ELSE 0

\* this step builds the round's next game_state
BuildsUpdate == loop'.pc = "send" /\ (loop.pc = "sleep" \/ loop'.idx # loop.idx)

\* C14: the round that follows a tick works through the connections
\* registered at its start, once each and in order; each one still
\* registered when its turn comes is sent a game_state with the tick just
\* advanced to, its own agent's state and the round's one world summary;
\* the round ends only when no connection of its list is left to serve.
C14_OneUpdatePerConnection ==
    [][/\ current_tick' # current_tick =>
             /\ current_tick' = current_tick + 1
             /\ loop.pc = "sleep"
             /\ IF connections = <<>> THEN loop'.pc = "sleep"
                ELSE /\ loop'.pc = "send"
                     /\ loop'.copy = connections
                     /\ loop'.world_state.tick = current_tick'
       /\ (loop.pc = "sleep" /\ loop'.pc = "send") =>
             current_tick' # current_tick
       /\ (loop.pc = "send" /\ loop'.pc = "send") =>
             /\ loop'.copy = loop.copy
             /\ loop'.world_state = loop.world_state
             /\ loop'.idx >= loop.idx
             /\ current_tick' = current_tick
       /\ loop'.pc = "send" =>
             \A i, j \in 1 .. Len(loop'.copy) :
                 i # j => loop'.copy[i].ws # loop'.copy[j].ws
       /\ BuildsUpdate =>
             LET to == loop'.copy[loop'.idx]
             IN  /\ loop'.idx > SentUpTo
                 /\ \A k \in SentUpTo + 1 .. loop'.idx - 1 :
                       ConnGet(connections', loop'.copy[k].ws) = 0
                 /\ ConnGet(connections', to.ws) = to.agent_id
                 /\ bmsg'.to = to.ws
                 /\ bmsg'.tick = current_tick'
                 /\ bmsg'.agent_id = to.agent_id
                 /\ bmsg'.agent_state =
                        [x |-> obj'[to.agent_id].x, y |-> obj'[to.agent_id].y,
                         inventory |-> obj'[to.agent_id].inventory]
                 /\ bmsg'.world_info =
                        [total_entities |-> loop'.world_state.entity_count,
                         total_agents |-> loop'.world_state.agents,
                         total_resources |-> loop'.world_state.resources]
                 /\ loop.pc = "send" => bmsg'.world_info = bmsg.world_info
       /\ (loop.pc = "send" /\ loop'.pc = "sleep") =>
             \A k \in loop.idx + 1 .. Len(loop.copy) :
                 ConnGet(connections, loop.copy[k].ws) = 0]_vars

\* the round is sending to the second of two connections, both registered
\* since before the round started
C14_Witness ==
    /\ loop.pc = "send" /\ Len(loop.copy) = 2 /\ loop.idx = 2
    /\ bmsg.to = loop.copy[2].ws
    /\ \A k \in 1 .. 2 : ConnGet(connections, loop.copy[k].ws) # 0

\* ----------------------------------------------------------------- C15
\* message m, read from connection c, is malformed JSON, names an unknown
\* action, or comes from a connection that is not registered
IsProtocolError(c, m) ==
    \/ ~m.json
    \/ m.action \notin {"move", "harvest", "craft"}
    \/ ConnGet(connections, c) = 0

\* C15: such a message changes neither the world, nor the tick, nor any
\* binding; its handler sends one error to its own connection and goes back
\* to reading, without an action_confirmed or a game_state.
C15_ProtocolErrorIsolated ==
    [][\A c \in Conns :
          /\ \A m \in Messages :
                (Receive(c, m) /\ IsProtocolError(c, m)) =>
                    /\ pc'[c] = "error"
                    /\ cur'[c] = cur[c]
                    /\ UNCHANGED <<worldVars, current_tick, connections,
                                   agents, action_queue>>
                    /\ \A b \in Conns \ {c} : pc'[b] = pc[b]
          /\ (pc[c] = "error" /\ pc'[c] # "error") =>
                /\ pc'[c] \in {"recv", "closed"}
                /\ pc'[c] = "recv" =>
                      UNCHANGED <<worldVars, current_tick, connections,
                                  agents>>
                /\ Dropped \subseteq {c}]_vars

\* a registered connection has sent a message that is no command: its
\* handler is sending the error while another connection is registered
C15_Witness ==
    \E c \in Conns, b \in Conns :
        /\ b # c /\ pc[c] = "error" /\ cur[c] = NoOp
        /\ ConnGet(connections, c) # 0 /\ ConnGet(connections, b) # 0

\* ----------------------------------------------------------------- C16
\* the connections whose send has failed in this round, the one awaited now
\* included when it fails too
Failed(ok) ==
    {loop.disconnected[i] : i \in 1 .. Len(loop.disconnected)}
    \cup (IF ok THEN {} ELSE {loop.copy[loop.idx].ws})

\* C16: a send that fails in the broadcast round is only noted: the round
\* goes on to every later connection still registered, and at its end
\* unregisters the connections whose send failed and no other, removing
\* their agents and nothing else; the loop is then ready for the next tick.
C16_FailedSendIsolated ==
    [][\A ok \in BOOLEAN :
          BroadcastSendDone(ok) =>
              /\ (\E k \in loop.idx + 1 .. Len(loop.copy) :
                      ConnGet(connections, loop.copy[k].ws) # 0)
                     <=> loop'.pc = "send"
              /\ loop'.pc = "send" =>
                    /\ UNCHANGED <<worldVars, connections, agents>>
                    /\ {loop'.disconnected[i] :
                           i \in 1 .. Len(loop'.disconnected)} = Failed(ok)
              /\ loop'.pc = "sleep" =>
                    /\ loop' = LoopIdle
                    /\ \A c \in Conns :
                          ConnGet(connections', c) =
                              IF c \in Failed(ok) THEN 0
                              ELSE ConnGet(connections, c)
                    /\ entities' = entities \ Gone
                    /\ agents' = agents \ Gone
                    /\ \A a \in entities' :
                          /\ obj'[a] = obj[a]
                          /\ entity_positions'[a] = entity_positions[a]]_vars

\* the send to the first connection of the round has failed; the round is
\* sending to the second while the first is still registered
C16_Witness ==
    /\ loop.pc = "send" /\ Len(loop.copy) = 2 /\ loop.idx = 2
    /\ loop.disconnected = <<loop.copy[1].ws>>
    /\ ConnGet(connections, loop.copy[1].ws) # 0
    /\ ConnGet(connections, loop.copy[2].ws) # 0

\* ----------------------------------------------------------------- C17
\* the commands connection c can send, as queue items
CommandsOf(c) ==
    [agent_id : {ConnGet(connections, c)}, action : {"move"}, dx : Deltas,
     dy : Deltas, conn : {c}]
    \cup [agent_id : {ConnGet(connections, c)}, action : {"harvest", "craft"},
          dx : {0}, dy : {0}, conn : {c}]

\* the world after the action of queue item it
After(w, it) == ApplyAction(w, it.agent_id, it.action, it.dx, it.dy).w

\* process_action_queue applies two queued commands of one connection in
\* the order in which they were queued
DrainsInOrder ==
    \A c \in Conns :
        (ConnGet(connections, c) # 0 /\ ConnGet(connections, c) \in agents) =>
            \A i1 \in CommandsOf(c), i2 \in CommandsOf(c) :
                DrainLoop(World, agents, <<i1, i2>>, 1, applied).w
                    = After(After(World, i1), i2)

\* C17: a connection's commands take effect in the order in which the
\* server reads them: the handler applies the command it has just read
\* before it reads the next one of that connection and defers nothing, and
\* process_action_queue works through queued commands first in, first out.
C17_AppliedInOrderReceived ==
    /\ []DrainsInOrder
    /\ [][received' # received =>
             \E c \in Conns :
                 /\ pc[c] = "recv" /\ pc'[c] \in {"ack", "error"}
                 /\ \A b \in Conns \ {c} : pc'[b] = pc[b] /\ cur'[b] = cur[b]
                 /\ \E m \in Messages :
                       /\ Receive(c, m)
                       /\ IsCommand(c, m) =>
                             /\ World' = After(World,
                                    [agent_id |-> ConnGet(connections, c),
                                     action |-> m.action, dx |-> m.dx,
                                     dy |-> m.dy, conn |-> c])
                             /\ action_queue' = action_queue]_vars

\* one connection, the only one that ever opened, has sent a move and then a
\* harvest; the harvest found the deposit the move had led to
C17_Witness ==
    \E c \in Conns :
        /\ \A b \in Conns \ {c} : pc[b] = "new"
        /\ received = 2 /\ pc[c] = "ack"
        /\ cur[c].op = "harvest" /\ cur[c].ok

\* ----------------------------------------------------------------- C18
\* C18: registering a connection creates one Agent, with an id no object
\* had before and an empty inventory, at the centre cell, adds it to grid,
\* registry, index and the server's tables and touches nothing else; a
\* connection gets its binding when it registers and keeps it unchanged
\* until a cleanup deletes it.
C18_RegistrationCreatesOneAgent ==
    [][\A c \in Conns :
          /\ (pc[c] = "new" /\ pc'[c] # "new") =>
                LET id == ConnGet(connections', c)
                    cx == Width \div 2
                    cy == Height \div 2
                IN  /\ pc'[c] = "welcome"
                    /\ id # 0 /\ id \notin DOMAIN obj
                    /\ DOMAIN obj' = DOMAIN obj \cup {id}
                    /\ \A o \in DOMAIN obj : obj'[o] = obj[o]
                    /\ obj'[id].kind = "agent"
                    /\ obj'[id].inventory = EmptyInv
                    /\ obj'[id].x = cx /\ obj'[id].y = cy
                    /\ entities' = entities \cup {id}
                    /\ entity_positions' = With(entity_positions, id,
                                                <<cx, cy>>)
                    /\ grid' = [grid EXCEPT ![cy][cx] = Append(@, id)]
                    /\ agents' = agents \cup {id}
                    /\ connections' =
                           Append(connections, [ws |-> c, agent_id |-> id])
          /\ ConnGet(connections, c) # 0 =>
                ConnGet(connections', c) \in {ConnGet(connections, c), 0}
          /\ (ConnGet(connections, c) = 0 /\ ConnGet(connections', c) # 0) =>
                pc[c] = "new"]_vars

\* a second connection has just registered: its agent stands on the centre
\* cell, the first connection's agent has moved off it
C18_Witness ==
    \E c \in Conns, b \in Conns :
        /\ pc[c] = "welcome" /\ ConnGet(connections, c) # 0
        /\ ConnGet(connections, b) # 0 /\ b # c
        /\ entity_positions[ConnGet(connections, c)]
               = <<Width \div 2, Height \div 2>>
        /\ entity_positions[ConnGet(connections, b)]
               # <<Width \div 2, Height \div 2>>

\* ----------------------------------------------------------------- C19
\* C19: a harvest returns true if and only if a Resource is on the agent's
\* cell; with none there it returns false and leaves the world, the agent's
\* inventory included, as it was.
C19_HarvestIffResourceHere ==
    [][last'.op = "harvest" =>
          LET a == last'.who
              here == get_entity_at(World, obj[a].x, obj[a].y)
          IN  /\ <<obj[a].x, obj[a].y>> = entity_positions[a]
              /\ last'.ok <=> ResourcesIn(here) # {}
              /\ ResourcesIn(here) = {} => UNCHANGED worldVars]_vars

\* a harvest on a cell without a Resource has returned false while a
\* Resource lies on another cell
C19_Witness ==
    /\ last.op = "harvest" /\ ~last.ok
    /\ ResourcesIn(Cell(entity_positions[last.who])) = {}
    /\ \E r \in entities : obj[r].kind = "resource"

\* ----------------------------------------------------------------- C20
\* C20: a move that returns false leaves the agent where it was and every
\* grid cell, the registry, the position index and every inventory
\* unchanged.
C20_FailedMoveChangesNothing ==
    [][(last'.op = "move" /\ ~last'.ok) =>
          /\ UNCHANGED <<grid, entities, entity_positions>>
          /\ \A o \in DOMAIN obj :
                /\ obj'[o].x = obj[o].x /\ obj'[o].y = obj[o].y
                /\ obj'[o].inventory = obj[o].inventory
          /\ entity_positions'[last'.who]
                 = <<obj[last'.who].x, obj[last'.who].y>>]_vars

\* a move to a target beyond the right edge has returned false
C20_Witness ==
    /\ last.op = "move" /\ ~last.ok
    /\ obj[last.who].x + last.a1 >= Width
    /\ entity_positions[last.who] = <<obj[last.who].x, obj[last.who].y>>

\* ========================================================== SpecHarvest
\* Resource.harvest and Agent.harvest driven directly.  Object 1 is a
\* Resource outside the world, harvested with any amount; objects 2 and 3
\* are an ORE and a FUEL Resource that were added to the cell of the Agent,
\* object 4, in any order; the agent harvests again and again.
FreeResource == 1
CellResources == {2, 3}
Harvester == 4

\* a deposit below, at and above what one Agent.harvest takes
CellQtys == {1, HarvestCap, HarvestCap + 1}

\* the orders in which the three entities can have been added to the cell
CellOrders ==
    {s \in [1 .. 3 -> CellResources \cup {Harvester}] :
        \A i, j \in 1 .. 3 : i # j => s[i] # s[j]}

InitHarvest ==
    \E q1 \in 0 .. MaxQty, q2 \in CellQtys, q3 \in CellQtys,
       order \in CellOrders :
        /\ LET o == [id \in 1 .. 4 |->
                        CASE id = 1 -> NewResource(0, 0, "ore", q1)
                          [] id = 2 -> NewResource(0, 0, "ore", q2)
                          [] id = 3 -> NewResource(0, 0, "fuel", q3)
                          [] OTHER -> NewAgent(0, 0)]
               empty == [grid |-> EmptyGrid, entities |-> {},
                         entity_positions |-> [i \in {} |-> <<0, 0>>],
                         obj |-> o]
               w == AddAll(empty,
                           [i \in 1 .. 3 |->
                               [id |-> order[i], x |-> 0, y |-> 0]], 1)
           IN  /\ grid = w.grid
               /\ entities = w.entities
               /\ entity_positions = w.entity_positions
               /\ obj = w.obj
        /\ current_tick = 0
        /\ spawn_tick_counter = 0
        /\ InitServer

\* resource.harvest(amount) on the Resource outside the world
RHarvest(amount) ==
    /\ LET h == ResourceHarvest(obj[FreeResource].quantity, amount)
       IN  /\ obj' = [obj EXCEPT ![FreeResource].quantity = h.quantity]
           /\ last' = Op("Resource.harvest", FreeResource, amount, 0, TRUE,
                         h.harvested)
    /\ UNCHANGED <<grid, entities, entity_positions, serverVars, received,
                   current_tick, spawn_tick_counter>>

\* agent.harvest(world)
CHarvest ==
    /\ LET r == AgentHarvest(World, Harvester)
       IN  /\ SetWorld(r.w)
           /\ last' = Op("harvest", Harvester, 0, 0, r.ret, r.n)
    /\ UNCHANGED <<serverVars, received, current_tick, spawn_tick_counter>>

NextHarvest ==
    \/ \E amount \in 0 .. MaxAmt : RHarvest(amount)
    \/ CHarvest

\* harvest actions are repeated for as long as they change anything
SpecHarvest == InitHarvest /\ [][NextHarvest]_vars /\ WF_vars(CHarvest)

\* ----------------------------------------------------------------- C21
\* the Resource objects
ResourceObjs == {id \in DOMAIN obj : obj[id].kind = "resource"}

\* the first Resource in the list of the harvester's cell, 0 if none
FirstResourceHere ==
    LET list == get_entity_at(World, obj[Harvester].x, obj[Harvester].y)
        rs == {i \in 1 .. Len(list) : obj[list[i]].kind = "resource"}
    IN  IF rs = {} THEN 0
        ELSE list[CHOOSE i \in rs : \A j \in rs : i <= j]

\* C21: Resource.harvest(amount), amount >= 0, returns min(amount, quantity)
\* and lowers quantity by exactly that; no quantity is ever negative and
\* none ever increases; an agent's harvest lowers the quantity of the
\* resource it takes from by min(10, quantity) >= 1 and removes it from the
\* world exactly when that leaves 0; and repeated harvests remove every
\* resource of the cell after finitely many of them.
C21_HarvestClampedAndDepletes ==
    /\ [](\A r \in ResourceObjs : obj[r].quantity >= 0)
    /\ [][/\ \A r \in ResourceObjs : obj'[r].quantity <= obj[r].quantity
          /\ last'.op = "Resource.harvest" =>
                LET q == obj[FreeResource].quantity
                    m == IF last'.a1 <= q THEN last'.a1 ELSE q
                IN  /\ last'.n = m
                    /\ obj'[FreeResource].quantity = q - m
          /\ (last'.op = "harvest" /\ FirstResourceHere # 0) =>
                LET r == FirstResourceHere
                    q == obj[r].quantity
                    m == IF q >= 10 THEN 10 ELSE q
                IN  /\ m >= 1
                    /\ obj'[r].quantity = q - m
                    /\ GoneNext(r) <=> obj'[r].quantity = 0]_vars
    /\ <>[](\A r \in CellResources : r \notin entities)

\* a harvest has just taken the last unit of an 11-unit deposit, ten having
\* gone in an earlier harvest, and the deposit is out of the world
C21_Witness ==
    /\ last.op = "harvest" /\ last.ok /\ last.n = 1
    /\ \E r \in CellResources :
          /\ r \notin entities
          /\ obj[r].quantity = 0
          /\ get_inventory_count(obj[Harvester].inventory,
                                 obj[r].resource_type) >= 11

\* ============================================================ SpecUnits
\* The methods of one Agent's inventory and the engine's spawn counter
\* driven directly: add_to_inventory, remove_from_inventory,
\* produce_components, craft_component and should_spawn_resources, in any
\* order, on an agent constructed with an empty inventory.
Owner == 1

\* the resource names, as callers spell them
Kinds == <<"ore", "fuel", "components">>

InitUnits ==
    /\ grid = EmptyGrid
    /\ entities = {}
    /\ entity_positions = [i \in {} |-> <<0, 0>>]
    /\ current_tick = 0
    /\ obj = [id \in {Owner} |-> NewAgent(0, 0)]
    /\ spawn_tick_counter = 0
    /\ InitServer

unitFrame == <<grid, entities, entity_positions, serverVars, current_tick>>

\* the material an inventory stands for, a component counting for the ORE
\* and the FUEL that make one
Material(inv) ==
    get_inventory_count(inv, "ORE") + get_inventory_count(inv, "FUEL")
      + 2 * get_inventory_count(inv, "COMPONENTS")

\* agent.add_to_inventory(Kinds[k], q), while the inventory stays within
\* the material of MaxInv ORE and MaxInv FUEL
UAdd(k, q) ==
    /\ Material(add_to_inventory(obj[Owner].inventory, Kinds[k], q))
         <= 2 * MaxInv
    /\ obj' = [obj EXCEPT ![Owner].inventory =
                  add_to_inventory(@, Kinds[k], q)]
    /\ last' = Op("add_to_inventory", Owner, k, q, TRUE, 0)
    /\ UNCHANGED <<unitFrame, received, spawn_tick_counter>>

\* agent.remove_from_inventory(Kinds[k], q)
URemove(k, q) ==
    /\ LET r == remove_from_inventory(obj[Owner].inventory, Kinds[k], q)
       IN  /\ obj' = [obj EXCEPT ![Owner].inventory = r.inv]
           /\ last' = Op("remove_from_inventory", Owner, k, q, TRUE,
                         r.removed)
    /\ UNCHANGED <<unitFrame, received, spawn_tick_counter>>

\* agent.produce_components(q)
UProduce(q) ==
    /\ LET r == produce_components(obj[Owner].inventory, q)
       IN  /\ obj' = [obj EXCEPT ![Owner].inventory = r.inv]
           /\ last' = Op("produce_components", Owner, q, 0, TRUE, r.ret)
    /\ UNCHANGED <<unitFrame, received, spawn_tick_counter>>

\* economic_engine.craft_component(agent)
UCraft ==
    /\ LET r == craft_component(obj[Owner].inventory)
       IN  /\ obj' = [obj EXCEPT ![Owner].inventory = r.inv]
           /\ last' = Op("craft", Owner, 0, 0, r.ret, 0)
    /\ UNCHANGED <<unitFrame, received, spawn_tick_counter>>

\* economic_engine.should_spawn_resources(); received counts the calls
UShouldSpawn ==
    /\ received < MaxCalls
    /\ received' = received + 1
    /\ LET s == should_spawn_resources(spawn_tick_counter)
       IN  /\ spawn_tick_counter' = s.counter
           /\ last' = Op("should_spawn_resources", 0, 0, 0, s.ret, 0)
    /\ UNCHANGED <<unitFrame, obj>>

NextUnits ==
    \/ \E k \in 1 .. 3, q \in 1 .. MaxAmt : UAdd(k, q)
    \/ \E k \in 1 .. 3, q \in 1 .. MaxAmt : URemove(k, q)
    \/ \E q \in 0 .. MaxAmt : UProduce(q)
    \/ UCraft
    \/ UShouldSpawn

SpecUnits == InitUnits /\ [][NextUnits]_vars

\* ----------------------------------------------------------------- C22
\* the owner's count of a resource, read from the dict itself
Held(o, kind) ==
    IF kind \in DOMAIN o[Owner].inventory THEN o[Owner].inventory[kind]
    ELSE 0

\* C22: every craft step conserves material: a successful craft lowers
\* ORE + FUEL by exactly 2 and raises COMPONENTS by exactly 1, a failed
\* craft changes neither; so over any sequence of crafts ORE + FUEL falls
\* by twice, and COMPONENTS grows by once, the number of successful crafts.
C22_CraftConserves ==
    [][last'.op = "craft" =>
          LET d == IF last'.ok THEN 1 ELSE 0
          IN  /\ Held(obj', "ORE") + Held(obj', "FUEL")
                   = Held(obj, "ORE") + Held(obj, "FUEL") - 2 * d
              /\ Held(obj', "COMPONENTS") = Held(obj, "COMPONENTS") + d]_vars

\* a second successful craft in a row has used up the last ORE and FUEL
C22_Witness ==
    /\ last.op = "craft" /\ last.ok
    /\ Held(obj, "COMPONENTS") = 2
    /\ Held(obj, "ORE") = 0 /\ Held(obj, "FUEL") = 0

\* ----------------------------------------------------------------- C23
\* C23: the k-th call of should_spawn_resources returns true exactly when
\* k is a multiple of spawn_interval, and between calls the engine's counter
\* is always in 0 .. spawn_interval - 1.
C23_SpawnEveryNthCall ==
    /\ [](spawn_tick_counter \in 0 .. SpawnInterval - 1)
    /\ [][last'.op = "should_spawn_resources" =>
             /\ received' = received + 1
             /\ last'.ok <=> received' % SpawnInterval = 0]_vars

\* the call number 2 x spawn_interval has just returned true, the calls
\* since the first true one having returned false
C23_Witness ==
    /\ last.op = "should_spawn_resources" /\ last.ok
    /\ received = 2 * SpawnInterval
    /\ spawn_tick_counter = 0

\* ----------------------------------------------------------------- C24
\* (x, y) lies outside the grid
OutOfBounds(x, y) == x < 0 \/ x >= Width \/ y < 0 \/ y >= Height

\* C24: add_entity returns false exactly when the position is out of bounds
\* or the id is already registered, move_entity exactly when the new
\* position is out of bounds or the id is not registered, remove_entity
\* exactly when the id is not registered; and a call that returns false
\* leaves grid, registry, position index and the coordinates of every
\* existing entity as they were.
C24_ContainerRejections ==
    [][LET id == last'.who
           x == last'.a1
           y == last'.a2
       IN  /\ last'.op = "add" =>
                 (~last'.ok <=> (OutOfBounds(x, y) \/ id \in entities))
           /\ last'.op = "relocate" =>
                 (~last'.ok <=> (OutOfBounds(x, y) \/ id \notin entities))
           /\ last'.op = "remove" =>
                 (~last'.ok <=> id \notin entities)
           /\ (last'.op \in {"add", "relocate", "remove"} /\ ~last'.ok) =>
                 /\ UNCHANGED <<grid, entities, entity_positions>>
                 /\ \A e \in DOMAIN obj : obj'[e] = obj[e]
                 /\ id \in DOMAIN obj' /\ id \notin DOMAIN obj =>
                       obj'[id].x = x /\ obj'[id].y = y]_vars

\* a registered entity was added a second time, at another cell of the grid,
\* and the call returned false
C24_Witness ==
    /\ last.op = "add" /\ ~last.ok
    /\ last.who \in entities
    /\ ~OutOfBounds(last.a1, last.a2)
    /\ entity_positions[last.who] # <<last.a1, last.a2>>
    /\ Occurrences(last.who) = 1

\* ----------------------------------------------------------------- C26
\* C26: current_tick starts at 0; the step that calls tick raises it by
\* exactly 1; and no other step changes it: not a handler's step (a
\* registration, a client action, a disconnect), and not a step of the
\* broadcast.
C26_TickCountsTickCalls ==
    /\ current_tick = 0
    /\ [][/\ LoopTick => current_tick' = current_tick + 1
          /\ current_tick' # current_tick =>
                /\ LoopTick
                /\ current_tick' = current_tick + 1
          /\ (pc' # pc \/ received' # received \/ loop.pc # "sleep") =>
                current_tick' = current_tick]_vars

\* two ticks have happened around a registration and a client's message
C26_Witness ==
    /\ current_tick = 2
    /\ received >= 1
    /\ agents # {}
    /\ loop.pc = "send"

\* ----------------------------------------------------------------- C25
\* C25: every key present in an inventory has a count >= 1, and a key that
\* is absent reads as 0; remove_from_inventory(kind, q), q >= 1, returns
\* min(q, available), lowers the count of kind by that, deletes the key when
\* the count reaches 0, and leaves the other kinds alone.
C25_InventoryPrunedAndClamped ==
    /\ [](\A id \in DOMAIN obj :
             /\ \A k \in DOMAIN obj[id].inventory : obj[id].inventory[k] >= 1
             /\ \A k \in {"ORE", "FUEL", "COMPONENTS"} :
                   k \notin DOMAIN obj[id].inventory =>
                       get_inventory_count(obj[id].inventory, k) = 0)
    /\ [][last'.op = "remove_from_inventory" =>
             LET kind == Upper(Kinds[last'.a1])
                 q == last'.a2
                 available == Held(obj, kind)
                 m == IF q <= available THEN q ELSE available
             IN  /\ last'.n = m
                 /\ Held(obj', kind) = available - m
                 /\ available = m => kind \notin DOMAIN obj'[Owner].inventory
                 /\ \A k \in {"ORE", "FUEL", "COMPONENTS"} \ {kind} :
                       /\ Held(obj', k) = Held(obj, k)
                       /\ k \in DOMAIN obj'[Owner].inventory
                            <=> k \in DOMAIN obj[Owner].inventory]_vars

\* a removal asked for more than was there: it returned the one unit
\* available and the key is gone
C25_Witness ==
    /\ last.op = "remove_from_inventory"
    /\ last.a2 = 2 /\ last.n = 1
    /\ Upper(Kinds[last.a1]) \notin DOMAIN obj[Owner].inventory
    /\ DOMAIN obj[Owner].inventory # {}

\* ----------------------------------------------------------------- C27
\* the least of three numbers
Least(a, b, c) ==
    IF a <= b /\ a <= c THEN a ELSE IF b <= c THEN b ELSE c

\* C27: produce_components(q), q >= 0, returns p = min(ORE, FUEL, q),
\* lowers ORE and FUEL by exactly p each and raises COMPONENTS by exactly
\* p; and can_produce_components holds exactly when the agent holds at
\* least 1 ORE and at least 1 FUEL.
C27_ProduceTakesTheMinimum ==
    /\ [](can_produce_components(obj[Owner].inventory)
            <=> (Held(obj, "ORE") >= 1 /\ Held(obj, "FUEL") >= 1))
    /\ [][last'.op = "produce_components" =>
             LET p == Least(Held(obj, "ORE"), Held(obj, "FUEL"), last'.a1)
             IN  /\ last'.n = p
                 /\ Held(obj', "ORE") = Held(obj, "ORE") - p
                 /\ Held(obj', "FUEL") = Held(obj, "FUEL") - p
                 /\ Held(obj', "COMPONENTS") = Held(obj, "COMPONENTS") + p]_vars

\* one component was asked for and made while two could have been: one ORE
\* and one FUEL are left
C27_Witness ==
    /\ last.op = "produce_components" /\ last.a1 = 1 /\ last.n = 1
    /\ Held(obj, "ORE") = 1 /\ Held(obj, "FUEL") = 1
    /\ Held(obj, "COMPONENTS") = 1
    /\ can_produce_components(obj[Owner].inventory)

\* ----------------------------------------------------------------- C28
\* the material held by the entities ids: a resource's quantity, an agent's
\* inventory
RECURSIVE MaterialOf(_, _)
MaterialOf(o, ids) ==
    IF ids = {} THEN 0
    ELSE LET id == CHOOSE i \in ids : TRUE
         IN  (IF o[id].kind = "resource" THEN o[id].quantity
              ELSE Material(o[id].inventory))
               + MaterialOf(o, ids \ {id})

\* the world is not in the middle of any update
WholeWorld ==
    /\ \A id \in entities :
          /\ id \in DOMAIN entity_positions
          /\ entity_positions[id] = <<obj[id].x, obj[id].y>>
          /\ Contains(Cell(entity_positions[id]), id)
          /\ obj[id].kind = "resource" => obj[id].quantity >= 1
    /\ \A c \in Cells : \A i \in 1 .. Len(Cell(c)) : Cell(c)[i] \in entities
    /\ DOMAIN entity_positions = entities
    /\ agents = {id \in entities : obj[id].kind = "agent"}
    /\ {connections[i].agent_id : i \in 1 .. Len(connections)} = agents
    /\ spawn_tick_counter = current_tick % SpawnInterval

\* C28: every state any handler or the tick loop can see, at any of their
\* suspension points, is a whole one: grid, registry, index and coordinates
\* agree, no emptied resource is still in the world, the server's agents
\* and bindings match the world's agents, and the tick count and the spawn
\* counter are in step.  And every step is a whole operation: a step that
\* is neither a tick nor a departure conserves the material in the world
\* (harvest's debit with its credit, craft's debit with its credit), and
\* an agent that changes cell in a step arrives on a cell that held no
\* agent when that step began.
C28_MutationsAreWhole ==
    /\ []WholeWorld
    /\ [][/\ (current_tick' = current_tick /\ agents \subseteq agents') =>
                MaterialOf(obj', entities') = MaterialOf(obj, entities)
          /\ \A a \in agents \cap agents' :
                entity_positions'[a] # entity_positions[a] =>
                    AgentsIn(Cell(entity_positions'[a])) = {}]_vars

\* while a broadcast round is suspended in a send, a handler's harvest has
\* taken the last units of a deposit, credited them and removed the deposit,
\* and that handler is itself suspended in the send of its reply
C28_Witness ==
    /\ loop.pc = "send"
    /\ \E c \in Conns :
          /\ pc[c] = "ack"
          /\ cur[c].op = "harvest" /\ cur[c].ok
          /\ Material(obj[cur[c].who].inventory) >= 1
    /\ \E r \in DOMAIN obj :
          obj[r].kind = "resource" /\ r \notin entities

\* ----------------------------------------------------------------- C29
\* the Resources in the list of the harvester's cell, in the list's order
ResourcesHere ==
    SelectSeq(get_entity_at(World, obj[Harvester].x, obj[Harvester].y),
              LAMBDA e : obj[e].kind = "resource")

SpawnCaps == 1 .. (Width * Height + 1)

InitSpawn ==
    \E place \in Cells \cup {<<-1, -1>>} :
        /\ LET o == [id \in {1} |-> NewAgent(0, 0)]
               empty == [grid |-> EmptyGrid, entities |-> {},
                         entity_positions |-> [i \in {} |-> <<0, 0>>],
                         obj |-> o]
               w == add_entity(empty, 1, place[1], place[2]).w
           IN  /\ grid = w.grid
               /\ entities = w.entities
               /\ entity_positions = w.entity_positions
               /\ obj = w.obj
        /\ current_tick = 0
        /\ spawn_tick_counter = 0
        /\ InitServer

\* economic_engine.spawn_resources(max_resources)
SSpawn(max_resources) ==
    /\ \E draws \in SpawnDraws(World, max_resources) :
          /\ SetWorld(SpawnLoop(World, draws, 1, FreshId))
          /\ last' = Op("spawn_resources", 0, max_resources, 0, TRUE,
                        Len(draws))
    /\ UNCHANGED <<serverVars, received, current_tick, spawn_tick_counter>>

NextSpawn == \E max_resources \in SpawnCaps : SSpawn(max_resources)

SpecSpawn == InitSpawn /\ [][NextSpawn]_vars

\* ----------------------------------------------------------------- C30
\* C30: a call spawn_resources(max) made with c registered Resources and e
\* cells holding no entity inserts nothing when c >= max or e = 0, and
\* otherwise exactly min(max - c, e) new Resources, each alone on a cell
\* that was empty before the call, of kind ORE or FUEL and with a quantity
\* in 20 .. 100; the entities already there are not touched.
C30_SpawnFillsEmptyCellsUpToCap ==
    [][last'.op = "spawn_resources" =>
          LET max == last'.a1
              c == Cardinality({id \in entities : obj[id].kind = "resource"})
              e == Cardinality({cell \in Cells : Cell(cell) = <<>>})
              n == IF c >= max \/ e = 0 THEN 0
                   ELSE IF max - c <= e THEN max - c ELSE e
              new == entities' \ entities
          IN  /\ Cardinality(new) = n
              /\ entities \subseteq entities'
              /\ \A id \in new :
                    /\ obj'[id].kind = "resource"
                    /\ obj'[id].resource_type \in {"ORE", "FUEL"}
                    /\ obj'[id].quantity \in 20 .. 100
                    /\ Cell(entity_positions'[id]) = <<>>
                    /\ grid'[obj'[id].y][obj'[id].x] = <<id>>
              /\ \A id \in entities :
                    /\ obj'[id] = obj[id]
                    /\ entity_positions'[id] = entity_positions[id]
              /\ \A cell \in Cells :
                    Cell(cell) # <<>> => grid'[cell[2]][cell[1]] = Cell(cell)
              /\ n = 0 => UNCHANGED <<grid, entities, entity_positions, obj>>]_vars

\* one call has put two Resources on two cells while the cap allowed two
\* more than were there, and left a third cell empty
C30_Witness ==
    /\ last.op = "spawn_resources" /\ last.n = 2
    /\ Cardinality({id \in entities : obj[id].kind = "resource"}) = last.a1
    /\ \E c1, c2 \in Cells :
          /\ c1 # c2
          /\ Len(Cell(c1)) = 1 /\ Len(Cell(c2)) = 1
          /\ obj[Cell(c1)[1]].kind = "resource"
          /\ obj[Cell(c2)[1]].kind = "resource"
    /\ \E c3 \in Cells : Cell(c3) = <<>>

\* ----------------------------------------------------------------- C31
\* C31: the engine's counter moves only in the step that ticks the world,
\* and once in it: spawn_tick_counter = current_tick mod spawn_interval in
\* every state, and a tick inserts Resources, as many as the cap and the
\* empty cells allow, exactly when its number is a multiple of the spawn
\* interval, and none on any other tick.
C31_SpawnCounterFollowsTick ==
    /\ [](spawn_tick_counter = current_tick % SpawnInterval)
    /\ [][/\ current_tick' = current_tick =>
                spawn_tick_counter' = spawn_tick_counter
          /\ current_tick' # current_tick =>
                LET spawned == {id \in entities' \ entities :
                                   obj'[id].kind = "resource"}
                    c == Cardinality(Resources)
                    e == Cardinality({cell \in Cells : Cell(cell) = <<>>})
                    room == IF c >= MaxResources THEN 0
                            ELSE IF MaxResources - c <= e
                                 THEN MaxResources - c ELSE e
                IN  IF current_tick' % SpawnInterval = 0
                    THEN Cardinality(spawned) = room
                    ELSE spawned = {}]_vars

\* the tick numbered spawn_interval has reset the counter and spawned a
\* Resource in place of a deposit that a client had harvested away
C31_Witness ==
    /\ current_tick = SpawnInterval
    /\ spawn_tick_counter = 0
    /\ \E r \in Resources : r > Len(InitialResources)
    /\ \E r \in 1 .. Len(InitialResources) : r \notin entities
    /\ agents # {}

\* ----------------------------------------------------------------- C32
\* the agent ids the connection table maps to
BoundAgents == {connections[i].agent_id : i \in 1 .. Len(connections)}

\* connection table, agent table and the world's agents are one set
BookkeepingAgrees ==
    /\ \A i, j \in 1 .. Len(connections) :
          i # j => /\ connections[i].ws # connections[j].ws
                   /\ connections[i].agent_id # connections[j].agent_id
    /\ agents = BoundAgents
    /\ get_entities_by_type(World, "agent") = agents

\* C32: in every state the connection table maps distinct connections to
\* distinct agent ids, the server's agent table holds exactly those ids and
\* the Agents registered in the world are exactly that set; and the
\* world_info.total_agents of every game_state the broadcast builds equals
\* the number of registered connections.
C32_BookkeepingAgreesWithWorld ==
    /\ []BookkeepingAgrees
    /\ [][(bmsg' # NoMsg /\ bmsg' # bmsg) =>
             bmsg'.world_info.total_agents = Len(connections')]_vars

\* ----------------------------------------------------------------- C33
\* connection c stays between the send of an action_confirmed and the
\* building of the game_state that answers the same command
AwaitingReply(c) == pc[c] = "ack" /\ pc'[c] = "ack"

\* C33: between the action_confirmed of a command and the game_state that
\* answers it, the broadcast hands no game_state to the same connection,
\* and the tick does not advance, so that the answer carries the tick in
\* which the action was applied.
C33_ReplyPairAdjacent ==
    [][\A c \in Conns :
          AwaitingReply(c) =>
              /\ ~(bmsg' # NoMsg /\ bmsg' # bmsg /\ bmsg'.to = c)
              /\ current_tick' = current_tick]_vars

\* ----------------------------------------------------------------- C34
\* the material of kind k among the entities ids: the quantity of a
\* Resource of kind k, an Agent's count of k plus its count of COMPONENTS
RECURSIVE KindMaterial(_, _, _)
KindMaterial(o, ids, k) ==
    IF ids = {} THEN 0
    ELSE LET id == CHOOSE i \in ids : TRUE
             own == IF o[id].kind = "resource"
                    THEN (IF o[id].resource_type = k THEN o[id].quantity
                          ELSE 0)
                    ELSE (IF k \in DOMAIN o[id].inventory
                          THEN o[id].inventory[k] ELSE 0)
                         + (IF "COMPONENTS" \in DOMAIN o[id].inventory
                            THEN o[id].inventory["COMPONENTS"] ELSE 0)
         IN  own + KindMaterial(o, ids \ {id}, k)

\* C34: for K = ORE and K = FUEL, the quantities of the K Resources in the
\* world plus the agents' counts of K plus the agents' counts of COMPONENTS
\* are unchanged by every move, harvest and craft, successful or not; the
\* sum changes only in a step that spawns Resources or removes an agent.
C34_MaterialConservedPerKind ==
    [][\A k \in {"ORE", "FUEL"} :
          LET before == KindMaterial(obj, entities, k)
              after == KindMaterial(obj', entities', k)
          IN  /\ last'.op \in {"move", "harvest", "craft"} => after = before
              /\ after # before =>
                    \/ \E id \in entities' \ entities :
                           obj'[id].kind = "resource"
                    \/ \E id \in entities \ entities' :
                           obj[id].kind = "agent"]_vars

\* an agent that began with one ORE and one FUEL has harvested the ORE
\* deposit away and then crafted a component
C34_Witness ==
    /\ last.op = "craft" /\ last.ok
    /\ 1 \notin entities
    /\ get_inventory_count(obj[last.who].inventory, "COMPONENTS") = 1
    /\ get_inventory_count(obj[last.who].inventory, "ORE") = 2
    /\ get_inventory_count(obj[last.who].inventory, "FUEL") = 0

\* ----------------------------------------------------------------- C35
\* C35: in every state of the server started from the initial world no
\* cell holds more than one Resource, and every Resource registered in the
\* world has a quantity of at least 1.
C35_OneResourcePerCell ==
    /\ \A c \in Cells :
          Cardinality({i \in 1 .. Len(Cell(c)) :
                          obj[Cell(c)[i]].kind = "resource"}) <= 1
    /\ \A r \in entities : obj[r].kind = "resource" => obj[r].quantity >= 1

\* a client's agent stands on the FUEL deposit after one harvest of it: ten
\* units are in the inventory and the deposit is still there with the rest
C35_Witness ==
    \E a \in agents, r \in entities \cap (1 .. Len(InitialResources)) :
        /\ obj[r].kind = "resource"
        /\ entity_positions[a] = entity_positions[r]
        /\ get_inventory_count(obj[a].inventory, obj[r].resource_type)
             = HarvestCap
        /\ obj[r].quantity = InitialResources[r].qty - HarvestCap

\* ----------------------------------------------------------------- C36
\* C36: every registered entity's own x and y are the position the index
\* records for its id, and the grid holds the entity in the cell at its
\* own coordinates, so a method that reads self.x and self.y looks at the
\* cell the entity is in.
C36_OwnCoordinatesMatchIndex ==
    \A id \in entities :
        /\ id \in DOMAIN entity_positions
        /\ obj[id].x = entity_positions[id][1]
        /\ obj[id].y = entity_positions[id][2]
        /\ is_valid_position(obj[id].x, obj[id].y)
        /\ Contains(grid[obj[id].y][obj[id].x], id)

\* an entity built before the newest one was added once more, after its
\* removal, at the coordinates the call gave, and sits there now
C36_Witness ==
    /\ last.op = "add" /\ last.ok
    /\ last.who < Cardinality(DOMAIN obj)
    /\ last.who \in entities
    /\ obj[last.who].x = last.a1 /\ obj[last.who].y = last.a2
    /\ Cardinality(entities) = 2

\* ----------------------------------------------------------------- C37
\* the server under the scheduling the event loop gives simulation_loop:
\* asyncio.sleep returns, so an iteration that can start does start, and a
\* send the loop awaits completes or fails.  The two conditions are
\* WF_vars(LoopTick) and WF_vars(\E ok \in BOOLEAN : BroadcastSendDone(ok))
\* written with the actions' enabling conditions, which FairnessIsWeak
\* states; the handlers and the clients get no fairness at all
LoopTickEnabled == loop.pc = "sleep" /\ current_tick < MaxTick

BroadcastSendEnabled == loop.pc = "send"

LoopFairness ==
    /\ \/ []<>~LoopTickEnabled
       \/ []<><<LoopTick>>_vars
    /\ \/ []<>~BroadcastSendEnabled
       \/ []<><<\E ok \in BOOLEAN : BroadcastSendDone(ok)>>_vars

SpecLive == Init /\ [][Next]_vars /\ LoopFairness

\* the enabling conditions used in LoopFairness are the actions' own
FairnessIsWeak ==
    /\ LoopTickEnabled <=> ENABLED <<LoopTick>>_vars
    /\ BroadcastSendEnabled
           <=> ENABLED <<\E ok \in BOOLEAN : BroadcastSendDone(ok)>>_vars

\* C37: under that scheduling the tick counter keeps advancing whatever the
\* clients do: from every tick below the model's cap the next tick is
\* reached, every broadcast round the loop has begun comes to its end, and
\* the loop is never anywhere but in its sleep or in an awaited send
C37_TickLoopKeepsRunning ==
    /\ \A t \in 0 .. MaxTick - 1 :
           (current_tick = t) ~> (current_tick = t + 1)
    /\ (loop.pc = "send") ~> (loop.pc = "sleep")
    /\ [](loop.pc \in {"sleep", "send"})

\* the loop has made its last tick of the model and sleeps, after one
\* connection was dropped for a failed or closed socket and another was
\* answered with a protocol error
C37_Witness ==
    /\ current_tick = MaxTick
    /\ loop.pc = "sleep"
    /\ \E c, d \in Conns : pc[c] = "closed" /\ pc[d] = "error"

====
